---- MODULE Spec2Model ----
(***************************************************************************)
(* A model of the loading pipeline of bevy_cobweb_ui:                      *)
(*   - the constants resolution engine (loading/cache/constants_buffer.rs) *)
(*   - the loadable registry and the loaders (loading/load_ext.rs)         *)
(*   - the style instructions (ui_bevy/ui_ext/style_wrappers.rs)           *)
(* Strings are sequences of one-character strings, so that strip_prefix    *)
(* and path_to_string are computed textually, as the code computes them.   *)
(***************************************************************************)
EXTENDS Integers, Sequences, FiniteSets, TLC

\* ------------------------------------------------------------------------
\* Bounds of the model
\* ------------------------------------------------------------------------

\* Longest stack an append may produce.
MaxStack == 2

\* Most loads of one entity.
MaxLoads == 2

\* ------------------------------------------------------------------------
\* Strings and options
\* ------------------------------------------------------------------------

\* Option<T>: None is the empty set, Some(v) the singleton.
None == {}

Some(v) == {v}

\* const CONSTANT_SEPARATOR: &str = "::"
CONSTANT_SEPARATOR == <<":", ":">>

\* str::starts_with
starts_with(s, p) ==
    /\ Len(p) <= Len(s)
    /\ SubSeq(s, 1, Len(p)) = p

\* str::strip_prefix: the rest of s after p, or None when s does not start with p.
strip_prefix(s, p) ==
    IF starts_with(s, p) THEN Some(SubSeq(s, Len(p) + 1, Len(s))) ELSE None

\* Option::unwrap_or
unwrap_or(opt, default) ==
    IF opt = None THEN default ELSE CHOOSE v \in opt : TRUE

\* A path_to_string that forgets to skip the empty segments.
path_to_string_keep_empties(separator, path) ==
    IF Len(path) = 0 THEN <<>>
    ELSE path[1] \o (IF Len(path) > 1 THEN separator \o path[2] ELSE <<>>)

\* path_to_string: skip empties and concatenate with the separator: a::b::c.
\* `count` is the number of non-empty segments seen so far.
RECURSIVE path_to_string_from(_, _, _, _)
path_to_string_from(separator, path, i, count) ==
    IF i > Len(path) THEN <<>>
    ELSE IF path[i] = <<>> THEN path_to_string_from(separator, path, i + 1, count)
    ELSE (IF count + 1 = 1 THEN <<>> ELSE separator) \o path[i]
            \o path_to_string_from(separator, path, i + 1, count + 1)

path_to_string(separator, path) == path_to_string_from(separator, path, 1, 0)

\* ------------------------------------------------------------------------
\* Inputs of the constants buffer
\* ------------------------------------------------------------------------

\* The ConstantsBuffers of the files being processed.
Buffers == {"A", "B", "C"}

\* Identifiers of constants.
Names == {<<"x">>}

\* The identities of the shared maps (Arc allocations) end_new_file can make.
MapIds == {1, 2}

\* CobConstantValue, abstracted to what distinguishes two values.
Values == {1, 2}

\* The values the declarations of file b evaluate to.
ValuesOf(b) == IF b = "A" THEN Values ELSE IF b = "B" THEN {1} ELSE {2}

\* The import graph is acyclic: a file imports only files assembled before it.
Imports(a, b) == <<a, b>> \in {<<"A", "B">>, <<"A", "C">>, <<"B", "C">>}

\* CobImportAlias values used at the import sites of file b: no alias, or its name.
AliasesOf(b) == IF b = "B" THEN {<<>>, <<"b">>} ELSE {<<>>, <<"c">>}

\* ------------------------------------------------------------------------
\* State
\* ------------------------------------------------------------------------

VARIABLES
    maps,       \* the Arc<ConstantsMap> allocations: maps[id] is the content of map id
    stack,      \* stack[b]: sequence of [prefix, map] with map an id into maps
    new_file,   \* new_file[b]: the ConstantsMap being collected
    log         \* history (SpecConstantsLogged): the last operation, and how many
                \* entries it removed (append) or replaced (insert)

cbVars == <<maps, stack, new_file, log>>

NoLog == [op |-> "none", removed |-> 0]

Log(logged, op, n) == IF logged THEN [op |-> op, removed |-> n] ELSE NoLog

\* ConstantsMap = HashMap<SmolStr, CobConstantValue>
EmptyMap == <<>>

\* HashMap::get
MapGet(m, k) == IF k \in DOMAIN m THEN Some(m[k]) ELSE None

\* An insert that keeps the value of a key the map already holds.
MapInsertKeepFirst(m, k, v) == [n \in (DOMAIN m) \cup {k} |-> IF n \in DOMAIN m THEN m[n] ELSE v]

\* HashMap::insert
MapInsert(m, k, v) == [n \in (DOMAIN m) \cup {k} |-> IF n = k THEN v ELSE m[n]]

\* #[derive(Default)] ConstantsBuffer
CBInit ==
    /\ maps = <<>>
    /\ stack = [b \in Buffers |-> <<>>]
    /\ new_file = [b \in Buffers |-> EmptyMap]
    /\ log = NoLog

\* ------------------------------------------------------------------------
\* ConstantsBuffer operations
\* ------------------------------------------------------------------------

\* ConstantsBuffer::start_new_file
start_new_file(b) ==
    /\ new_file' = [new_file EXCEPT ![b] = EmptyMap]
    /\ UNCHANGED <<maps, stack>>

\* An end_new_file that clones new_file instead of taking it.
end_new_file_clone(b) ==
    /\ Len(maps) + 1 \in MapIds
    /\ Len(stack[b]) < MaxStack
    /\ maps' = Append(maps, new_file[b])
    /\ stack' = [stack EXCEPT ![b] = Append(@, [prefix |-> <<>>, map |-> Len(maps) + 1])]
    /\ UNCHANGED new_file

\* ConstantsBuffer::end_new_file: take new_file, wrap it in a new Arc and push it
\* with the default (empty) prefix.
end_new_file(b) ==
    /\ Len(maps) + 1 \in MapIds
    /\ Len(stack[b]) < MaxStack
    /\ maps' = Append(maps, new_file[b])
    /\ stack' = [stack EXCEPT ![b] = Append(@, [prefix |-> <<>>, map |-> Len(maps) + 1])]
    /\ new_file' = [new_file EXCEPT ![b] = EmptyMap]

\* An insert that writes through to the map on top of the stack when there is one.
insert_frozen(b, name, value) ==
    /\ IF stack[b] = <<>>
       THEN /\ new_file' = [new_file EXCEPT ![b] = MapInsert(@, name, value)]
            /\ UNCHANGED maps
       ELSE /\ maps' = [maps EXCEPT ![stack[b][Len(stack[b])].map] =
                            MapInsert(@, name, value)]
            /\ UNCHANGED new_file
    /\ UNCHANGED stack

\* ConstantsBuffer::insert
insert(b, name, value) ==
    /\ new_file' = [new_file EXCEPT ![b] = MapInsert(@, name, value)]
    /\ UNCHANGED <<maps, stack>>

\* An entry lookup that strips the prefix but not the separator.
EntryLookupNoSeparator(entry, path) ==
    LET stripped == strip_prefix(path, entry.prefix) IN
    IF stripped = None THEN None
    ELSE MapGet(maps[entry.map], unwrap_or(stripped, <<>>))

\* An entry lookup that accepts a path under a non-empty prefix only with the
\* separator after the prefix, and a bare name under the empty prefix.
EntryLookupSeparatorRequired(entry, path) ==
    LET stripped == strip_prefix(path, entry.prefix) IN
    IF stripped = None THEN None
    ELSE LET s == unwrap_or(stripped, <<>>) IN
         IF entry.prefix = <<>> THEN MapGet(maps[entry.map], s)
         ELSE IF strip_prefix(s, CONSTANT_SEPARATOR) = None THEN None
         ELSE MapGet(maps[entry.map], unwrap_or(strip_prefix(s, CONSTANT_SEPARATOR), s))

\* The closure of get's find_map for one stack entry.
EntryLookup(entry, path) ==
    LET stripped == strip_prefix(path, entry.prefix) IN
    IF stripped = None THEN None
    ELSE LET s == unwrap_or(stripped, <<>>)
             cleaned == unwrap_or(strip_prefix(s, CONSTANT_SEPARATOR), s)
         IN MapGet(maps[entry.map], cleaned)

\* A find_map over stack.iter() without the rev(): oldest entry first.
RECURSIVE FindMapFrom(_, _, _)
FindMapFrom(st, i, path) ==
    IF i > Len(st) THEN None
    ELSE IF EntryLookup(st[i], path) # None THEN EntryLookup(st[i], path)
    ELSE FindMapFrom(st, i + 1, path)

FindMapForward(st, i, path) == FindMapFrom(st, 1, path)

\* stack.iter().rev().find_map(..) from position i downwards.
RECURSIVE FindMapRev(_, _, _)
FindMapRev(st, i, path) ==
    IF i = 0 THEN None
    ELSE IF EntryLookup(st[i], path) # None THEN EntryLookup(st[i], path)
    ELSE FindMapRev(st, i - 1, path)

\* A get that falls back on a value when nothing resolves the path.
GetInWithFallback(nf, st, path) ==
    IF MapGet(nf, path) # None THEN MapGet(nf, path)
    ELSE IF FindMapRev(st, Len(st), path) # None THEN FindMapRev(st, Len(st), path)
    ELSE Some(1)

\* A get that searches the stack before the file's own declarations.
GetInStackFirst(nf, st, path) ==
    IF FindMapRev(st, Len(st), path) # None THEN FindMapRev(st, Len(st), path)
    ELSE MapGet(nf, path)

\* ConstantsBuffer::get on a buffer given by its two fields.
GetIn(nf, st, path) ==
    IF MapGet(nf, path) # None THEN MapGet(nf, path)
    ELSE FindMapRev(st, Len(st), path)

\* ConstantsBuffer::get
get(b, path) == GetIn(new_file[b], stack[b], path)

\* SmallVec::remove
RemoveAt(st, i) == SubSeq(st, 1, i - 1) \o SubSeq(st, i + 1, Len(st))

\* An append without its first loop.
RemoveNothing(self, alias, to_append, k) == self

\* The first loop of append: for each entry of to_append, remove the first entry
\* of self with the same computed prefix and the same Arc pointer.
RECURSIVE RemoveDuplicates(_, _, _, _)
RemoveDuplicates(self, alias, to_append, k) ==
    IF k > Len(to_append) THEN self
    ELSE
        LET new_to_append_prefix ==
                path_to_string(CONSTANT_SEPARATOR, <<alias, to_append[k].prefix>>)
            matches == {i \in 1..Len(self) :
                            /\ self[i].prefix = new_to_append_prefix
                            /\ self[i].map = to_append[k].map}
        IN IF matches = {} THEN RemoveDuplicates(self, alias, to_append, k + 1)
           ELSE LET existing == CHOOSE i \in matches : \A j \in matches : i <= j
                IN RemoveDuplicates(RemoveAt(self, existing), alias, to_append, k + 1)

\* The second part of append: the entries of to_append under their new prefixes.
Reprefixed(alias, to_append) ==
    [k \in 1..Len(to_append) |->
        [prefix |-> path_to_string(CONSTANT_SEPARATOR, <<alias, to_append[k].prefix>>),
         map |-> to_append[k].map]]

\* An append that leaves an entry self already holds where it is and pushes
\* only the entries that are new to self.
AppendedStackInPlace(self, alias, to_append) ==
    self \o SelectSeq(Reprefixed(alias, to_append),
                      LAMBDA e : \A i \in 1..Len(self) : self[i] # e)

\* An append that puts the entries of to_append underneath those of self.
AppendedStackUnderneath(self, alias, to_append) ==
    Reprefixed(alias, to_append) \o RemoveDuplicates(self, alias, to_append, 1)

\* The stack of self after self.append(alias, to_append).
AppendedStack(self, alias, to_append) ==
    RemoveDuplicates(self, alias, to_append, 1) \o Reprefixed(alias, to_append)

\* ConstantsBuffer::append(&mut self, alias, to_append: &Self)
append(a, alias, b) ==
    LET result == AppendedStack(stack[a], alias, stack[b]) IN
    /\ Len(result) <= MaxStack
    /\ stack' = [stack EXCEPT ![a] = result]
    /\ UNCHANGED <<maps, new_file>>

\* ------------------------------------------------------------------------
\* The loadable registry (LoaderCallbacks)
\* ------------------------------------------------------------------------

\* TypeId::of::<T>() of the loadable types registered.
TypeIds == {"AbsoluteNode", "FlexNode", "DisplayControl"}

VARIABLES
    command_callbacks,  \* HashMap<TypeId, fn(&mut World, ReflectedLoadable, LoadableRef)>
    node_callbacks,     \* HashMap<TypeId, fn(&mut World, Entity, ReflectedLoadable, LoadableRef)>
    revert_callbacks,   \* HashMap<TypeId, fn(Entity, &mut World)>
    lastRegistered      \* history: per type, the callbacks the latest register_* call supplied

regVars == <<command_callbacks, node_callbacks, revert_callbacks, lastRegistered>>

NeverRegistered == [command |-> None, node |-> None, revert |-> None]

\* #[derive(Default)] LoaderCallbacks, made by init_resource in LoadExtPlugin::build.
RegInit ==
    /\ command_callbacks = <<>>
    /\ node_callbacks = <<>>
    /\ revert_callbacks = <<>>
    /\ lastRegistered = [t \in TypeIds |-> NeverRegistered]

\* HashMap::entry(key).or_insert(value): the value is stored only if the key is vacant.
EntryOrInsert(m, key, value) ==
    IF key \in DOMAIN m THEN m ELSE MapInsert(m, key, value)

\* register_command_loadable::<T>: warn when occupied, then entry.or_insert.
register_command_loadable(t) ==
    /\ command_callbacks' = EntryOrInsert(command_callbacks, t, "command_loader")
    /\ lastRegistered' = [lastRegistered EXCEPT ![t].command = Some("command_loader")]
    /\ UNCHANGED <<node_callbacks, revert_callbacks>>

\* A registration whose reverter replaces the one already stored.
register_node_loadable_newest_reverter(t, callback, reverter) ==
    /\ node_callbacks' = EntryOrInsert(node_callbacks, t, callback)
    /\ revert_callbacks' = MapInsert(revert_callbacks, t, reverter)
    /\ lastRegistered' = [lastRegistered EXCEPT ![t].node = Some(callback),
                                                  ![t].revert = Some(reverter)]
    /\ UNCHANGED command_callbacks

\* register_node_loadable::<T>(app, callback, reverter, register_type)
register_node_loadable(t, callback, reverter) ==
    /\ node_callbacks' = EntryOrInsert(node_callbacks, t, callback)
    /\ revert_callbacks' = EntryOrInsert(revert_callbacks, t, reverter)
    /\ lastRegistered' = [lastRegistered EXCEPT ![t].node = Some(callback),
                                                  ![t].revert = Some(reverter)]
    /\ UNCHANGED command_callbacks

\* CobwebAssetRegistrationAppExt::register_command
register_command(t) == register_command_loadable(t)

\* CobwebAssetRegistrationAppExt::register_bundle
register_bundle(t) == register_node_loadable(t, "bundle_loader", "revert_bundle")

\* CobwebAssetRegistrationAppExt::register_reactive
register_reactive(t) == register_node_loadable(t, "reactive_loader", "revert_reactive")

\* CobwebAssetRegistrationAppExt::register_instruction
register_instruction(t) == register_node_loadable(t, "instruction_loader", "Instruction::revert")

\* LoaderCallbacks::get_for_command
get_for_command(type_id) == MapGet(command_callbacks, type_id)

\* LoaderCallbacks::get_for_node
get_for_node(type_id) == MapGet(node_callbacks, type_id)

\* A get_for_revert that looks the type up among the command callbacks.
get_for_revert_in_commands(type_id) == MapGet(command_callbacks, type_id)

\* LoaderCallbacks::get_for_revert
get_for_revert(type_id) == MapGet(revert_callbacks, type_id)

\* ------------------------------------------------------------------------
\* The world: one entity and the components the loadables touch
\* ------------------------------------------------------------------------

\* A declared value that does not decode into the registered type (get_value is None).
Undecodable == 0

\* The loadable types of the app: the three style instructions, the reactive
\* component Counter and the bundle CobwebNode.
LoadTypes == TypeIds \cup {"Counter", "CobwebNode"}

\* The payloads a declaration of each type can carry. For DisplayControl,
\* 1 is DisplayControl::Display and 2 is DisplayControl::Hide.
PayloadsOf(t) ==
    IF t = "AbsoluteNode" THEN {Undecodable, 1, 2}
    ELSE IF t = "FlexNode" THEN {1}
    ELSE IF t = "DisplayControl" THEN {1, 2}
    ELSE IF t = "Counter" THEN {Undecodable, 1, 2}
    ELSE {Undecodable, 1}

VARIABLES
    alive,      \* the entity exists in the World
    comps,      \* its components: React<AbsoluteNode>, React<FlexNode>,
                \* React<DisplayControl>, React<Counter>, CobwebNode and Node, each
                \* an Option, the HasLoadables marker, and the notifications the
                \* last callback call fired for it
    load_state, \* State<LoadState>
    last_call,  \* the last call made directly on the entity, outside any cycle
    document,   \* the loadables declared at the scene reference: type -> payload
    bound,      \* the cache tracks the entity for the scene reference
    applied,    \* the cache's record of what it applied to the entity: type -> payload
    pending,    \* the apply and revert calls of the running cycle not yet made
    history,    \* what was applied when the target was unbound, and the revert
                \* callbacks run since
    initializer_runs  \* how many times an initializer ran for the entity

worldVars == <<alive, comps, load_state, last_call>>

cacheVars == <<document, bound, applied, pending, history, initializer_runs>>

NoComponents ==
    [absolute |-> None, flex |-> None, display_control |-> None, node |-> None,
     counter |-> None, cobweb_node |-> None, has_loadables |-> FALSE, events |-> <<>>]

\* Node::default()
NodeDefault == [display |-> "Flex", position_type |-> "Relative", layout |-> <<"default", 0>>]

\* impl Into<Node> for AbsoluteNode
AbsoluteNodeIntoNode(v) ==
    [display |-> "Flex", position_type |-> "Absolute", layout |-> <<"AbsoluteNode", v>>]

\* impl Into<Node> for FlexNode
FlexNodeIntoNode(v) ==
    [display |-> "Flex", position_type |-> "Relative", layout |-> <<"FlexNode", v>>]

\* impl Into<Display> for DisplayControl
DisplayControlIntoDisplay(v) == IF v = 1 THEN "Flex" ELSE "None"

\* The React<T> component of the entity.
ReactComponent(c, t) ==
    IF t = "AbsoluteNode" THEN c.absolute
    ELSE IF t = "FlexNode" THEN c.flex
    ELSE IF t = "DisplayControl" THEN c.display_control
    ELSE c.counter

\* A notification of the given kind for React<T>; it carries the value the
\* component holds when it fires.
Notify(c, kind, t) ==
    [c EXCEPT !.events = Append(@, [kind |-> kind, type |-> t, value |-> ReactComponent(c, t)])]

\* React::<T>::trigger_mutation(entity, world)
trigger_mutation(c, t) == Notify(c, "mutation", t)

\* detect_absolute_node, run for the insertion or mutation of React<AbsoluteNode>:
\* the node built from it, with the display of the DisplayControl if there is one,
\* is inserted.
detect_absolute_node(c) ==
    IF c.absolute = None THEN c
    ELSE LET node == AbsoluteNodeIntoNode(unwrap_or(c.absolute, 0)) IN
         [c EXCEPT !.node =
            Some(IF c.display_control = None THEN node
                 ELSE [node EXCEPT !.display =
                          DisplayControlIntoDisplay(unwrap_or(c.display_control, 0))])]

\* detect_flex_node
detect_flex_node(c) ==
    IF c.flex = None THEN c
    ELSE LET node == FlexNodeIntoNode(unwrap_or(c.flex, 0)) IN
         [c EXCEPT !.node =
            Some(IF c.display_control = None THEN node
                 ELSE [node EXCEPT !.display =
                          DisplayControlIntoDisplay(unwrap_or(c.display_control, 0))])]

\* detect_display_control: needs both a Node and a React<DisplayControl>.
detect_display_control(c) ==
    IF c.node = None \/ c.display_control = None THEN c
    ELSE [c EXCEPT !.node =
            Some([unwrap_or(c.node, NodeDefault) EXCEPT !.display =
                     DisplayControlIntoDisplay(unwrap_or(c.display_control, 0))])]

\* A write that notifies before it writes.
WriteAfterNotify(c, t, v) ==
    LET notified == Notify(c, IF ReactComponent(c, t) # None THEN "mutation" ELSE "insertion", t)
    IN IF t = "AbsoluteNode" THEN [notified EXCEPT !.absolute = Some(v)]
       ELSE IF t = "FlexNode" THEN [notified EXCEPT !.flex = Some(v)]
       ELSE IF t = "DisplayControl" THEN [notified EXCEPT !.display_control = Some(v)]
       ELSE [notified EXCEPT !.counter = Some(v)]

\* The match of reactive_loader and of the three apply functions:
\*   Some(component) => { *component.get_noreact() = value; trigger_mutation }
\*   None            => world.react(|rc| rc.insert(entity, value))
WriteReactComponent(c, t, v) ==
    LET written ==
            IF t = "AbsoluteNode" THEN [c EXCEPT !.absolute = Some(v)]
            ELSE IF t = "FlexNode" THEN [c EXCEPT !.flex = Some(v)]
            ELSE IF t = "DisplayControl" THEN [c EXCEPT !.display_control = Some(v)]
            ELSE [c EXCEPT !.counter = Some(v)]
    IN IF ReactComponent(c, t) # None
       THEN trigger_mutation(written, t)
       ELSE Notify(written, "insertion", t)

\* <AbsoluteNode as Instruction>::apply: return if the entity is missing; overwrite
\* or insert the React<AbsoluteNode>; either way the reactor runs.
AbsoluteNodeApply(exists, c, v) ==
    IF ~exists THEN c
    ELSE detect_absolute_node(WriteReactComponent(c, "AbsoluteNode", v))

\* A revert of AbsoluteNode that does not look for the entity first.
AbsoluteNodeRevertUnchecked(exists, c) ==
    [c EXCEPT !.absolute = None, !.flex = None, !.node = Some(NodeDefault)]

\* <AbsoluteNode as Instruction>::revert:
\* e.remove::<(React<AbsoluteNode>, React<FlexNode>)>(); e.insert(Node::default()).
AbsoluteNodeRevert(exists, c) ==
    IF ~exists THEN c
    ELSE [c EXCEPT !.absolute = None, !.flex = None, !.node = Some(NodeDefault)]

\* <FlexNode as Instruction>::apply
FlexNodeApply(exists, c, v) ==
    IF ~exists THEN c
    ELSE detect_flex_node(WriteReactComponent(c, "FlexNode", v))

\* <FlexNode as Instruction>::revert
FlexNodeRevert(exists, c) ==
    IF ~exists THEN c
    ELSE [c EXCEPT !.absolute = None, !.flex = None, !.node = Some(NodeDefault)]

\* <DisplayControl as Instruction>::apply
DisplayControlApply(exists, c, v) ==
    IF ~exists THEN c
    ELSE detect_display_control(WriteReactComponent(c, "DisplayControl", v))

\* <DisplayControl as Instruction>::revert: remove the component and, if the entity
\* has a Node, set its display to DisplayControl::Display.into().
DisplayControlRevert(exists, c) ==
    IF ~exists THEN c
    ELSE LET removed == [c EXCEPT !.display_control = None] IN
         IF removed.node = None THEN removed
         ELSE [removed EXCEPT !.node =
                 Some([unwrap_or(removed.node, NodeDefault) EXCEPT !.display =
                          DisplayControlIntoDisplay(1)])]

\* Instruction::apply, by type.
InstructionApply(t, exists, c, v) ==
    IF t = "AbsoluteNode" THEN AbsoluteNodeApply(exists, c, v)
    ELSE IF t = "FlexNode" THEN FlexNodeApply(exists, c, v)
    ELSE DisplayControlApply(exists, c, v)

\* Instruction::revert, by type.
InstructionRevert(t, exists, c) ==
    IF t = "AbsoluteNode" THEN AbsoluteNodeRevert(exists, c)
    ELSE IF t = "FlexNode" THEN FlexNodeRevert(exists, c)
    ELSE DisplayControlRevert(exists, c)

\* ReflectedLoadable::get_value
get_value(v) == IF v = Undecodable THEN None ELSE Some(v)

\* A bundle_loader that inserts Default::default() when the value does not decode.
bundle_loader_default(exists, c, loadable) ==
    IF ~exists THEN c
    ELSE [c EXCEPT !.cobweb_node = Some(unwrap_or(get_value(loadable), 1))]

\* bundle_loader::<T>: return if the entity is missing, return if the value does
\* not decode, else ec.insert(bundle).
bundle_loader(exists, c, loadable) ==
    IF ~exists THEN c
    ELSE IF get_value(loadable) = None THEN c
    ELSE [c EXCEPT !.cobweb_node = Some(unwrap_or(get_value(loadable), 0))]

\* A reactive_loader that notifies before it writes.
reactive_loader_notify_first(t, exists, c, loadable) ==
    IF ~exists THEN c
    ELSE IF get_value(loadable) = None THEN c
    ELSE WriteAfterNotify(c, t, unwrap_or(get_value(loadable), 0))

\* reactive_loader::<T>: return if the entity is missing, return if the value does
\* not decode, else overwrite and trigger_mutation, or insert.
reactive_loader(t, exists, c, loadable) ==
    IF ~exists THEN c
    ELSE IF get_value(loadable) = None THEN c
    ELSE WriteReactComponent(c, t, unwrap_or(get_value(loadable), 0))

\* instruction_loader::<T>: return if the entity is missing, return if the value
\* does not decode, else value.apply(entity, world).
instruction_loader(t, exists, c, loadable) ==
    IF ~exists THEN c
    ELSE IF get_value(loadable) = None THEN c
    ELSE InstructionApply(t, exists, c, unwrap_or(get_value(loadable), 0))

\* revert_bundle::<T>: return if the entity is missing, else emut.remove::<T>().
revert_bundle(exists, c) ==
    IF ~exists THEN c
    ELSE [c EXCEPT !.cobweb_node = None]

\* revert_reactive::<T>: return if the entity is missing, else
\* emut.remove::<React<T>>().
revert_reactive(t, exists, c) ==
    IF ~exists THEN c
    ELSE [c EXCEPT !.counter = None]

\* A call of the node callback the registry holds for the type; the notifications
\* of the call before are forgotten.
CallNodeCallback(t, exists, c, loadable) ==
    LET w == [c EXCEPT !.events = <<>>] IN
    IF get_for_node(t) = Some("instruction_loader")
    THEN instruction_loader(t, exists, w, loadable)
    ELSE IF get_for_node(t) = Some("reactive_loader")
    THEN reactive_loader(t, exists, w, loadable)
    ELSE IF get_for_node(t) = Some("bundle_loader")
    THEN bundle_loader(exists, w, loadable)
    ELSE w

\* A call of the revert callback the registry holds for the type.
CallRevertCallback(t, exists, c) ==
    LET w == [c EXCEPT !.events = <<>>] IN
    IF get_for_revert(t) = Some("Instruction::revert")
    THEN InstructionRevert(t, exists, w)
    ELSE IF get_for_revert(t) = Some("revert_reactive")
    THEN revert_reactive(t, exists, w)
    ELSE IF get_for_revert(t) = Some("revert_bundle")
    THEN revert_bundle(exists, w)
    ELSE w

\* The callbacks the app's registrations store for a type: register_instruction_type
\* for the three style types (StyleWrappersPlugin::build), register_reactive for
\* Counter, register_bundle for CobwebNode.
NodeCallbackOf(t) ==
    IF t \in TypeIds THEN "instruction_loader"
    ELSE IF t = "Counter" THEN "reactive_loader"
    ELSE "bundle_loader"

RevertCallbackOf(t) ==
    IF t \in TypeIds THEN "Instruction::revert"
    ELSE IF t = "Counter" THEN "revert_reactive"
    ELSE "revert_bundle"

RegisteredByPlugins ==
    /\ command_callbacks = <<>>
    /\ node_callbacks = [t \in LoadTypes |-> NodeCallbackOf(t)]
    /\ revert_callbacks = [t \in LoadTypes |-> RevertCallbackOf(t)]
    /\ lastRegistered = [t \in TypeIds |->
            [command |-> None, node |-> Some("instruction_loader"),
             revert |-> Some("Instruction::revert")]]

\* The documents: each type declared with one of its payloads, or not declared.
Documents ==
    UNION {[S -> {Undecodable, 1, 2}] : S \in SUBSET LoadTypes}

\* The documents considered declare style instructions, or the counter and the
\* bundle, with payloads of their types.
Families == {TypeIds, LoadTypes \ TypeIds}

WellTyped(doc) ==
    /\ \A t \in DOMAIN doc : doc[t] \in PayloadsOf(t)
    /\ \E F \in Families : DOMAIN doc \subseteq F

\* ------------------------------------------------------------------------
\* The change-tracking cache, from sections 4.6 and 5 of the specification
\* ------------------------------------------------------------------------

\* The calls of one cycle: apply what is declared and not applied or applied with
\* another payload, revert what is applied and no longer declared.
CycleCalls(doc, rec) ==
    {[call |-> "apply", type |-> t, loadable |-> doc[t]] :
        t \in {u \in DOMAIN doc : u \notin DOMAIN rec \/ rec[u] # doc[u]}}
    \cup {[call |-> "revert", type |-> t, loadable |-> Undecodable] :
        t \in (DOMAIN rec) \ (DOMAIN doc)}

MapRemove(m, k) == [n \in (DOMAIN m) \ {k} |-> m[n]]

NoHistory == [unbound |-> {}, reverts |-> [t \in LoadTypes |-> 0]]

NoCall == [call |-> "none", type |-> "none", loadable |-> Undecodable]

WorldInit ==
    /\ alive = TRUE
    /\ comps = NoComponents
    /\ load_state = "Loading"
    /\ last_call = NoCall

\* A node callback of the registry is called for the entity.
call_node_callback(t, loadable) ==
    /\ comps' = CallNodeCallback(t, alive, comps, loadable)
    /\ last_call' = [call |-> "node_callback", type |-> t, loadable |-> loadable]
    /\ UNCHANGED <<alive, load_state>>

\* Instruction::apply is called for the entity with a value of the type.
call_instruction_apply(t, v) ==
    /\ comps' = InstructionApply(t, alive, [comps EXCEPT !.events = <<>>], v)
    /\ last_call' = [call |-> "instruction_apply", type |-> t, loadable |-> v]
    /\ UNCHANGED <<alive, load_state>>

\* A revert callback of the registry is called for the entity.
call_revert_callback(t) ==
    /\ comps' = CallRevertCallback(t, alive, comps)
    /\ last_call' = [call |-> "revert_callback", type |-> t, loadable |-> Undecodable]
    /\ UNCHANGED <<alive, load_state>>

\* The entity is despawned.
despawn_entity ==
    /\ alive
    /\ alive' = FALSE
    /\ comps' = NoComponents
    /\ last_call' = NoCall
    /\ UNCHANGED load_state

CacheInit ==
    /\ document \in {doc \in Documents : WellTyped(doc)}
    /\ bound = FALSE
    /\ applied = <<>>
    /\ pending = {}
    /\ history = NoHistory
    /\ initializer_runs = 0

\* The files finished loading: LoadState::Done is entered.
enter_done ==
    /\ load_state = "Loading"
    /\ load_state' = "Done"
    /\ UNCHANGED <<last_call, alive, comps>>
    /\ UNCHANGED cacheVars

\* A track_entity that drops the initializer.
track_entity_without_initializer ==
    /\ bound' = TRUE
    /\ pending' = CycleCalls(document, applied)
    /\ history' = NoHistory
    /\ UNCHANGED <<document, applied, initializer_runs>>

\* CobwebAssetCache::track_entity: the entity is bound to the scene reference,
\* the initializer runs, and the first cycle starts.
track_entity ==
    /\ bound' = TRUE
    /\ initializer_runs' = initializer_runs + 1
    /\ pending' = CycleCalls(document, applied)
    /\ history' = NoHistory
    /\ UNCHANGED <<document, applied>>

\* load_from_ref: give up with an error unless the LoadState is Done, else
\* track_entity.
load_from_ref ==
    IF load_state # "Done"
    THEN UNCHANGED cacheVars
    ELSE track_entity

\* EntityCommands::load / load_with_initializer on an entity the cache does not
\* track: insert HasLoadables, then the queued load_from_ref runs with the
\* initializer.
load_with_initializer ==
    /\ alive
    /\ ~bound
    /\ pending = {}
    /\ initializer_runs < MaxLoads
    /\ comps' = [comps EXCEPT !.has_loadables = TRUE]
    /\ load_from_ref
    /\ UNCHANGED <<last_call, alive, load_state>>

\* Reload trigger: the file changed and the document was assembled again; cycles of
\* one target are strictly sequential.
reload(doc) ==
    /\ pending = {}
    /\ doc # document
    /\ document' = doc
    /\ pending' = IF bound THEN CycleCalls(doc, applied) ELSE {}
    /\ history' = NoHistory
    /\ UNCHANGED <<last_call, alive, comps, load_state, bound, applied, initializer_runs>>

\* One apply call of the cycle: decode, apply, record as applied.
cycle_apply(c) ==
    /\ c \in pending
    /\ c.call = "apply"
    /\ comps' = CallNodeCallback(c.type, alive, comps, c.loadable)
    /\ applied' = MapInsert(applied, c.type, c.loadable)
    /\ pending' = pending \ {c}
    /\ UNCHANGED <<last_call, alive, load_state, document, bound, history, initializer_runs>>

\* One revert call of the cycle: revert, remove the record.
cycle_revert(c) ==
    /\ c \in pending
    /\ c.call = "revert"
    /\ comps' = CallRevertCallback(c.type, alive, comps)
    /\ applied' = MapRemove(applied, c.type)
    /\ pending' = pending \ {c}
    /\ history' = IF history.unbound # {} /\ get_for_revert(c.type) # None
                  THEN [history EXCEPT !.reverts[c.type] = @ + 1]
                  ELSE history
    /\ UNCHANGED <<last_call, alive, load_state, document, bound, initializer_runs>>

\* The target is unbound: the binding goes and everything applied is reverted, as
\* if every declaration at the scene reference had disappeared.
unbind ==
    /\ bound
    /\ pending = {}
    /\ bound' = FALSE
    /\ pending' = CycleCalls(<<>>, applied)
    /\ history' = [unbound |-> DOMAIN applied, reverts |-> [t \in LoadTypes |-> 0]]
    /\ UNCHANGED <<last_call, alive, comps, load_state, document, applied, initializer_runs>>

\* The entity is despawned: its components go, and the cache drops its binding and
\* its record. Calls already queued stay queued.
despawn ==
    /\ alive
    /\ alive' = FALSE
    /\ comps' = NoComponents
    /\ bound' = FALSE
    /\ applied' = <<>>
    /\ UNCHANGED <<last_call, load_state, document, pending, history, initializer_runs>>

\* ------------------------------------------------------------------------
\* Builtin values: hex colors and dimension values (caf_builtin.rs)
\* ------------------------------------------------------------------------

\* Largest number of hex digits written after '#' in an input.
MaxDigits == 9

\* The characters the inputs are drawn from.
HexAlphabet == {"F", "a"}

\* "0123456789abcdefABCDEF" (caf_builtin.rs 45), split by case.
HexLower == <<"0", "1", "2", "3", "4", "5", "6", "7", "8", "9", "a", "b", "c", "d", "e", "f">>

HexUpper == <<"0", "1", "2", "3", "4", "5", "6", "7", "8", "9", "A", "B", "C", "D", "E", "F">>

IsHexDigit(ch) == \E i \in 1..16 : HexLower[i] = ch \/ HexUpper[i] = ch

\* char::to_digit(16)
to_digit(ch) == (CHOOSE i \in 1..16 : HexLower[i] = ch \/ HexUpper[i] = ch) - 1

\* A u32 is kept as two 16-bit halves.
U32(hi, lo) == [hi |-> hi % 65536, lo |-> lo % 65536]

\* u32 << s with the bits shifted out dropped (0 <= s < 16).
Shl(d, s) == U32((d.hi * (2 ^ s)) + ((d.lo * (2 ^ s)) \div 65536), d.lo * (2 ^ s))

\* u32 as u8
AsU8(d) == d.lo % 256

\* The longest prefix of hex digits of a text.
RECURSIVE HexPrefixLen(_)
HexPrefixLen(s) ==
    IF s = <<>> \/ ~IsHexDigit(Head(s)) THEN 0 ELSE 1 + HexPrefixLen(Tail(s))

\* Sum of to_digit(16) << (k * 4) over the reversed digits (lines 57-66).
RECURSIVE HexValue(_)
HexValue(ds) ==
    IF ds = <<>> THEN U32(0, 0)
    ELSE LET rest == HexValue(SubSeq(ds, 1, Len(ds) - 1))
             d == to_digit(ds[Len(ds)])
             shifted == Shl(rest, 4)
         IN  U32(shifted.hi, shifted.lo + d)

IsErr(r) == r.kind = "Err"

\* parse_hex_u32: at least one hex digit, at most eight taken.
parse_hex_u32(input) ==
    LET n == HexPrefixLen(input)
        taken == IF n <= 8 THEN n ELSE 8
    IN  IF n = 0 THEN [kind |-> "Err"]
        ELSE [kind |-> "Ok",
              remaining |-> SubSeq(input, taken + 1, Len(input)),
              value |-> HexValue(SubSeq(input, 1, taken))]

\* ------------------------------------------------------------------------
\* f32 channel values.  A finite non-negative f32 is m * 2^e with m odd
\* (or m = 0, e = 0) and m < 2^24; two values are equal exactly when their
\* records are.
\* ------------------------------------------------------------------------

RECURSIVE Normal(_, _)
Normal(m, e) ==
    IF m = 0 THEN [m |-> 0, e |-> 0]
    ELSE IF m % 2 = 0 THEN Normal(m \div 2, e + 1)
    ELSE [m |-> m, e |-> e]

F32Zero == Normal(0, 0)

F32One == Normal(1, 0)

RECURSIVE BitLen(_)
BitLen(n) == IF n = 0 THEN 0 ELSE 1 + BitLen(n \div 2)

\* is_subnormal: nonzero and below 2^-126, the smallest normal f32.
is_subnormal(v) == v.m # 0 /\ v.e + BitLen(v.m) - 1 < -126

\* Long division by 255: n more quotient bits after q, remainder r < 255.
RECURSIVE DivBits(_, _, _)
DivBits(q, r, n) ==
    IF n = 0 THEN [q |-> q, r |-> r]
    ELSE IF 2 * r >= 255 THEN DivBits(2 * q + 1, 2 * r - 255, n - 1)
    ELSE DivBits(2 * q, 2 * r, n - 1)

\* (byte as f32) / 255. : the f32 nearest to byte/255 (24 significant
\* bits, round to nearest; a tie cannot occur because 255 is odd).
ByteToChannel(byte) ==
    IF byte = 0 THEN F32Zero
    ELSE LET a == CHOOSE k \in 0..8 : byte * (2 ^ k) >= 255 /\ (k = 0 \/ byte * (2 ^ (k - 1)) < 255)
             d == DivBits(1, byte * (2 ^ a) - 255, 23)
             q == IF 2 * d.r > 255 THEN d.q + 1 ELSE d.q
         IN  Normal(q, 0 - (23 + a))

\* 255 * m as hi * 4096 + lo with lo < 4096 (m < 2^24).
Times255(m) ==
    LET a == 255 * (m \div 4096)
        b == 255 * (m % 4096)
    IN  [hi |-> a + (b \div 4096), lo |-> b % 4096]

\* The f32 product v * 255. : 255 * m rounded to 24 significant bits, ties
\* to even.
F32Times255(v) ==
    LET n == Times255(v.m)
        s == BitLen(n.hi) - 12
    IN  IF s <= 0 THEN Normal(n.hi * 4096 + n.lo, v.e)
        ELSE LET q == (n.hi * (2 ^ (12 - s))) + (n.lo \div (2 ^ s))
                 r == n.lo % (2 ^ s)
                 half == 2 ^ (s - 1)
                 up == r > half \/ (r = half /\ q % 2 = 1)
             IN  Normal(IF up THEN q + 1 ELSE q, v.e + s)

\* f32 as u8: truncation toward zero, saturating at 255.
TruncU8(v) ==
    IF v.m = 0 THEN 0
    ELSE IF v.e >= 0 THEN (IF v.e > 8 \/ v.m > 255 \/ v.m * (2 ^ v.e) > 255 THEN 255 ELSE v.m * (2 ^ v.e))
    ELSE IF 0 - v.e > 30 THEN 0
    ELSE LET t == v.m \div (2 ^ (0 - v.e)) IN IF t > 255 THEN 255 ELSE t

\* (channel * 255.) as u8, as write_to_with_space computes it (lines 92-96).
ChannelToByte(v) == TruncU8(F32Times255(v))

\* (num * 255.0f64) as u8 with num an f32 widened to f64: the product is
\* exact in f64 (32 significant bits), so this is floor(255 * m * 2^e).
F64Times255AsU8(v) ==
    LET n == Times255(v.m)
        k == 0 - v.e
    IN  IF v.m = 0 THEN 0
        ELSE IF v.e >= 0 \/ v.m >= 2 ^ (IF k > 24 THEN 24 ELSE k) THEN 255
        ELSE IF k >= 12 THEN (IF k - 12 > 30 THEN 0 ELSE n.hi \div (2 ^ (k - 12)))
        ELSE (n.hi * (2 ^ (12 - k))) + (n.lo \div (2 ^ k))

\* ------------------------------------------------------------------------
\* CafHexColor
\* ------------------------------------------------------------------------

Srgba(red, green, blue, alpha) == [red |-> red, green |-> green, blue |-> blue, alpha |-> alpha]

\* Srgba::default() is white.
SrgbaDefault == Srgba(F32One, F32One, F32One, F32One)

CafHexColor(fill, color) == [variant |-> "Color", fill |-> fill, color |-> color]

NoFill == <<>>

IsFillChar(ch) == ch = " "

\* CafFill::parse: the whitespace in front of the span becomes the next fill.
RECURSIVE CafFill_parse(_)
CafFill_parse(span) ==
    IF span = <<>> \/ ~IsFillChar(Head(span)) THEN [fill |-> NoFill, remaining |-> span]
    ELSE LET rest == CafFill_parse(Tail(span))
         IN  [fill |-> <<Head(span)>> \o rest.fill, remaining |-> rest.remaining]

\* The three ways a parser call ends: Ok((node, fill, remaining)), Err, or
\* a panic.
ParseOk(node, fill, remaining) == [kind |-> "Ok", node |-> node, fill |-> fill, remaining |-> remaining]

ParseErr == [kind |-> "Err", node |-> None, fill |-> NoFill, remaining |-> <<>>]

ParsePanic == [kind |-> "Panic", node |-> None, fill |-> NoFill, remaining |-> <<>>]

\* usize subtraction a - b.  With overflow checks (debug builds) a
\* negative difference panics; without them it wraps to 2^64 + a - b,
\* which is written here as the negative number a - b.
usize_sub(a, b, overflow_checks) ==
    IF a >= b THEN [kind |-> "Ok", value |-> a - b]
    ELSE IF overflow_checks THEN [kind |-> "Panic", value |-> 0]
    ELSE [kind |-> "Ok", value |-> a - b]

\* Lines 114-120: the color built from the digit count and the digits.
hex_color(len, digits) ==
    Srgba(ByteToChannel(AsU8(Shl(digits, 4))),
          ByteToChannel(AsU8(Shl(digits, 2))),
          ByteToChannel(AsU8(digits)),
          IF len = 8 THEN ByteToChannel(AsU8(Shl(digits, 6))) ELSE SrgbaDefault.alpha)

\* CafHexColor::try_parse (lines 100-124).
CafHexColor_try_parse(overflow_checks, fill, content) ==
    IF content = <<>> \/ Head(content) # "#" THEN ParseOk(None, fill, content)
    ELSE LET start_len == Len(Tail(content))
             parsed == parse_hex_u32(Tail(content))
         IN  IF IsErr(parsed) THEN ParseErr
             ELSE LET end_len == Len(parsed.remaining)
                      len == usize_sub(end_len, start_len, overflow_checks)
                      next == CafFill_parse(parsed.remaining)
                  IN  IF len.kind = "Panic" THEN ParsePanic
                      ELSE IF len.value # 8 /\ len.value # 6 THEN ParseErr
                      ELSE ParseOk(Some(CafHexColor(fill, hex_color(len.value, parsed.value))),
                                   next.fill, next.remaining)

\* write_num_as_hex: "{:02X}"
write_num_as_hex(num) == <<HexUpper[(num \div 16) + 1], HexUpper[(num % 16) + 1]>>

\* CafFill::write_to_or_else: the fill, or the given space when the fill is
\* empty.
write_to_or_else(fill, space) == IF fill = NoFill THEN space ELSE fill

\* CafHexColor::write_to_with_space (lines 87-98).
CafHexColor_write_to_with_space(self, space) ==
    write_to_or_else(self.fill, space)
        \o <<"#">>
        \o (IF self.color.alpha # F32One THEN write_num_as_hex(ChannelToByte(self.color.alpha)) ELSE <<>>)
        \o write_num_as_hex(ChannelToByte(self.color.red))
        \o write_num_as_hex(ChannelToByte(self.color.green))
        \o write_num_as_hex(ChannelToByte(self.color.blue))

\* 255 * v = byte exactly.  For e < 0 and m odd the product is not an
\* integer, so only a whole number can qualify.
IsByteOver255(v, byte) ==
    IF v.m = 0 THEN byte = 0
    ELSE v.e >= 0 /\ v.e <= 8 /\ v.m <= 255 /\ 255 * v.m * (2 ^ v.e) = byte

\* to_hex_int (lines 14-26) on an f32 widened to f64.  right is the f64
\* nearest to converted/255; left has at most 24 significant bits, and a
\* nonzero left - converted/255 exceeds half a unit in the last place of
\* left in f64 by a factor of 2^30 / 255, so right = left exactly when
\* converted/255 = left.  When converted = 0, right = 0 and diff is left
\* itself; otherwise left and right are both at least 1/255 and a nonzero
\* diff is a multiple of 2^-61, a normal f32.
to_hex_int(num) ==
    LET converted == F64Times255AsU8(num)
        diff_is_zero == IsByteOver255(num, converted)
        diff_is_subnormal == ~diff_is_zero /\ converted = 0 /\ is_subnormal(num)
    IN  IF diff_is_subnormal \/ diff_is_zero THEN Some(converted) ELSE None

\* impl TryFrom<Srgba> for CafHexColor (lines 132-148).
CafHexColor_try_from(value) ==
    IF \/ to_hex_int(value.red) = None
       \/ to_hex_int(value.green) = None
       \/ to_hex_int(value.blue) = None
       \/ to_hex_int(value.alpha) = None
    THEN ParseErr
    ELSE ParseOk(Some(CafHexColor(NoFill, value)), NoFill, <<>>)

\* ------------------------------------------------------------------------
\* CafBuiltin
\* ------------------------------------------------------------------------

DecimalDigits == {HexLower[i] : i \in 1..10}

IsDecimalDigit(ch) == ch \in DecimalDigits

\* The lower-case letters the inputs use, the underscore and the digits.
SnakeChars == {"a", "u", "t", "o", "p", "x", "v", "w", "h", "m", "i", "n", "_"} \cup DecimalDigits

\* The length of the longest prefix of s made of the given characters.
RECURSIVE PrefixLen(_, _)
PrefixLen(s, chars) ==
    IF s = <<>> \/ Head(s) \notin chars THEN 0 ELSE 1 + PrefixLen(Tail(s), chars)

\* snake_identifier: a lower-case word of letters, digits and underscores
\* that does not start with a digit.
snake_identifier(span) ==
    LET n == PrefixLen(span, SnakeChars)
    IN  IF n = 0 \/ IsDecimalDigit(Head(span)) THEN None
        ELSE Some([fragment |-> SubSeq(span, 1, n), remaining |-> SubSeq(span, n + 1, Len(span))])

\* CafNumberValue::parse: a run of decimal digits, kept as written.
CafNumberValue_parse(span) ==
    LET n == PrefixLen(span, DecimalDigits)
    IN  IF n = 0 THEN None
        ELSE Some([number |-> SubSeq(span, 1, n), remaining |-> SubSeq(span, n + 1, Len(span))])

\* The unit suffixes in the order alt() tries them (lines 235-242), with
\* the text write_to_with_space emits for each (lines 188-210).
Units ==
    << [val |-> "Percent", text |-> <<"%">>],
       [val |-> "Px", text |-> <<"p", "x">>],
       [val |-> "Vw", text |-> <<"v", "w">>],
       [val |-> "Vh", text |-> <<"v", "h">>],
       [val |-> "VMin", text |-> <<"v", "m", "i", "n">>],
       [val |-> "VMax", text |-> <<"v", "m", "a", "x">>] >>

Auto == <<"a", "u", "t", "o">>

\* alt((...)): the first unit whose tag the span starts with.
alt_units(span) ==
    IF \E i \in 1..Len(Units) : starts_with(span, Units[i].text)
    THEN Some(Units[CHOOSE i \in 1..Len(Units) :
                        /\ starts_with(span, Units[i].text)
                        /\ \A j \in 1..(i - 1) : ~starts_with(span, Units[j].text)])
    ELSE None

CafBuiltinVal(fill, number, val) == [variant |-> "Val", fill |-> fill, number |-> number, val |-> val]

\* A CafBuiltin::try_parse that reports no match for a number without a
\* unit but returns the span after the number.
CafBuiltin_try_parse_consuming(overflow_checks, fill, content) ==
    LET hex == CafHexColor_try_parse(overflow_checks, fill, content)
        ident == snake_identifier(content)
        number == CafNumberValue_parse(content)
    IN  IF hex.kind # "Ok" \/ hex.node # None THEN hex
        ELSE IF ident # None /\ unwrap_or(ident, 0).fragment = Auto
        THEN LET next == CafFill_parse(unwrap_or(ident, 0).remaining)
             IN  ParseOk(Some(CafBuiltinVal(hex.fill, None, "Auto")), next.fill, next.remaining)
        ELSE IF number = None THEN ParseOk(None, hex.fill, content)
        ELSE LET num == unwrap_or(number, 0)
                 unit == alt_units(num.remaining)
             IN  IF unit = None THEN ParseOk(None, hex.fill, num.remaining)
                 ELSE LET u == unwrap_or(unit, 0)
                          next == CafFill_parse(SubSeq(num.remaining, Len(u.text) + 1, Len(num.remaining)))
                      IN  ParseOk(Some(CafBuiltinVal(hex.fill, Some(num.number), u.val)),
                                  next.fill, next.remaining)

\* CafBuiltin::try_parse (lines 216-253).
CafBuiltin_try_parse(overflow_checks, fill, content) ==
    LET hex == CafHexColor_try_parse(overflow_checks, fill, content)
        ident == snake_identifier(content)
        number == CafNumberValue_parse(content)
    IN  IF hex.kind # "Ok" \/ hex.node # None THEN hex
        ELSE IF ident # None /\ unwrap_or(ident, 0).fragment = Auto
        THEN LET next == CafFill_parse(unwrap_or(ident, 0).remaining)
             IN  ParseOk(Some(CafBuiltinVal(hex.fill, None, "Auto")), next.fill, next.remaining)
        ELSE IF number = None THEN ParseOk(None, hex.fill, content)
        ELSE LET num == unwrap_or(number, 0)
                 unit == alt_units(num.remaining)
             IN  IF unit = None THEN ParseOk(None, hex.fill, content)
                 ELSE LET u == unwrap_or(unit, 0)
                          next == CafFill_parse(SubSeq(num.remaining, Len(u.text) + 1, Len(num.remaining)))
                      IN  ParseOk(Some(CafBuiltinVal(hex.fill, Some(num.number), u.val)),
                                  next.fill, next.remaining)

\* CafBuiltin::write_to_with_space (lines 177-214).
CafBuiltin_write_to_with_space(self, space) ==
    IF self.variant = "Color" THEN CafHexColor_write_to_with_space(self, space)
    ELSE write_to_or_else(self.fill, space)
            \o unwrap_or(self.number, <<>>)
            \o (IF self.val = "Auto" THEN Auto
                ELSE Units[CHOOSE i \in 1..Len(Units) : Units[i].val = self.val].text)

\* write_to (lines 172-175): write_to_with_space with an empty space.
CafBuiltin_write_to(self) == CafBuiltin_write_to_with_space(self, <<>>)

\* CafDataMacroCall::try_parse (caf_data_macro.rs 26-30): never a match.
CafDataMacroCall_try_parse(fill, content) == ParseOk(None, fill, content)

\* CafBuiltin::try_from_newtype_variant for Color::Srgba (lines 271-297)
\* with the four fields of the map already read into a color: the
\* conversion's failure becomes Ok(None).
CafBuiltin_try_from_newtype_variant(color) ==
    LET converted == CafHexColor_try_from(color)
    IN  IF IsErr(converted) THEN ParseOk(None, NoFill, <<>>) ELSE converted

\* ------------------------------------------------------------------------
\* The builtin parser and writer as operations on one input
\* ------------------------------------------------------------------------

VARIABLES
    overflow_checks,  \* whether the build panics on integer overflow
    hex_fill,         \* the fill handed to try_parse
    hex_content,      \* the span handed to try_parse
    hex_srgba,        \* the color handed to try_from
    hex_out,          \* the last call and what it returned
    hex_written       \* what write_to wrote for the node returned, if called

hexVars == <<overflow_checks, hex_fill, hex_content, hex_srgba, hex_out, hex_written>>

NoOutcome == [op |-> "none", result |-> ParseOk(None, NoFill, <<>>)]

\* No input, nothing called.
HexInit ==
    /\ overflow_checks = FALSE
    /\ hex_fill = NoFill
    /\ hex_content = <<>>
    /\ hex_srgba = SrgbaDefault
    /\ hex_out = NoOutcome
    /\ hex_written = None

\* All texts of the given length over the given characters.
RECURSIVE TextsOfLen(_, _)
TextsOfLen(chars, n) ==
    IF n = 0 THEN {<<>>}
    ELSE {<<ch>> \o t : ch \in chars, t \in TextsOfLen(chars, n - 1)}

\* What follows the value in the file: nothing, whitespace, or a bracket.
Tails == {<<>>, <<" ">>, <<"]">>}

\* '#' and up to MaxDigits hex digits.
HexTexts == UNION {{<<"#">> \o ds : ds \in TextsOfLen(HexAlphabet, n)} : n \in 0..MaxDigits}

\* Dimension values, and texts that are almost dimension values.
ValTexts ==
    { Auto, Auto \o <<"x">>, <<"1">>, <<"p", "x">>, <<"1", "p", "x", "x">>, <<"1", "2", "p", "x">>, <<>> }
        \cup {<<"1">> \o Units[i].text : i \in 1..Len(Units)}

Texts == {t \o tail : t \in HexTexts \cup ValTexts, tail \in Tails}

Fills == {NoFill, <<" ">>}

\* Channel values: 0, 1, 1/2, 2, the f32 nearest to 161/255, and 2^-140,
\* which is subnormal.
Channels == {F32Zero, F32One, Normal(1, -1), Normal(1, 1), ByteToChannel(161), Normal(1, -140)}

Colors == {Srgba(r, g, b, a) : r \in Channels, g \in Channels, b \in Channels, a \in Channels}

\* Either a text to parse, under either build, or a color to convert.
HexInputs ==
    /\ hex_out = NoOutcome
    /\ hex_written = None
    /\ \/ /\ overflow_checks \in BOOLEAN
          /\ hex_fill \in Fills
          /\ hex_content \in Texts
          /\ hex_srgba = SrgbaDefault
       \/ /\ overflow_checks = FALSE
          /\ hex_fill = NoFill
          /\ hex_content = <<>>
          /\ hex_srgba \in Colors

Called(op, result) ==
    /\ hex_out = NoOutcome
    /\ hex_out' = [op |-> op, result |-> result]
    /\ UNCHANGED <<overflow_checks, hex_fill, hex_content, hex_srgba, hex_written>>

call_hex_try_parse ==
    Called("CafHexColor::try_parse", CafHexColor_try_parse(overflow_checks, hex_fill, hex_content))

call_builtin_try_parse ==
    Called("CafBuiltin::try_parse", CafBuiltin_try_parse(overflow_checks, hex_fill, hex_content))

call_macro_try_parse ==
    Called("CafDataMacroCall::try_parse", CafDataMacroCall_try_parse(hex_fill, hex_content))

\* Lines 114-120 on their own: the color for the digits parse_hex_u32
\* returns when it consumed six or eight of them.
call_hex_color ==
    /\ hex_content # <<>>
    /\ Head(hex_content) = "#"
    /\ LET parsed == parse_hex_u32(Tail(hex_content))
       IN  /\ ~IsErr(parsed)
           /\ Len(Tail(hex_content)) - Len(parsed.remaining) \in {6, 8}
           /\ Called("hex_color",
                     ParseOk(Some(CafHexColor(hex_fill,
                                 hex_color(Len(Tail(hex_content)) - Len(parsed.remaining), parsed.value))),
                             NoFill, parsed.remaining))

call_try_from == Called("CafHexColor::try_from", CafHexColor_try_from(hex_srgba))

call_try_from_newtype_variant ==
    Called("CafBuiltin::try_from_newtype_variant", CafBuiltin_try_from_newtype_variant(hex_srgba))

\* write_to on the node the last call returned.
call_write_to ==
    /\ hex_out.result.kind = "Ok"
    /\ hex_out.result.node # None
    /\ hex_written = None
    /\ hex_written' = Some(CafBuiltin_write_to(unwrap_or(hex_out.result.node, 0)))
    /\ UNCHANGED <<overflow_checks, hex_fill, hex_content, hex_srgba, hex_out>>

\* ------------------------------------------------------------------------
\* Pseudo states (sickle_ext/pseudo_states_ext.rs)
\* ------------------------------------------------------------------------

\* Most commands waiting once a system has queued another one.
MaxQueue == 2

\* The pseudo states the events of this file set and remove.
PseudoStateValues == {"Enabled", "Disabled", "Selected", "Checked", "Open", "Closed", "Folded"}

\* The entity events (lines 122-143).
PseudoEvents == {"Enable", "Disable", "Select", "Deselect", "Check", "Uncheck", "Open", "Close", "Fold", "Unfold"}

VARIABLES
    ps_family,       \* the pseudo states the widget of this run uses
    pseudo_states,   \* the entity's PseudoStates component, None when it has none
    ps_queue,        \* the queued commands: entity events and state changes
    ps_last,         \* the last PseudoStateParam call: the component it read, what it
                     \* returned, what it queued
    ps_observed      \* what the callback of the event processed last saw

psVars == <<ps_family, pseudo_states, ps_queue, ps_last, ps_observed>>

\* EntityCommands::add_pseudo_state and remove_pseudo_state, queued.
AddPseudoState(state) == [command |-> "add_pseudo_state", arg |-> state]

RemovePseudoState(state) == [command |-> "remove_pseudo_state", arg |-> state]

\* c.react().entity_event(entity, Event), queued.
EntityEvent(event) == [command |-> "entity_event", arg |-> event]

\* Reactors that add the state of their event and remove nothing.
detect_reactor_add_only(event) ==
    CASE event = "Enable" -> <<AddPseudoState("Enabled")>>
      [] event = "Disable" -> <<AddPseudoState("Disabled")>>
      [] event = "Open" -> <<AddPseudoState("Open")>>
      [] event = "Close" -> <<AddPseudoState("Closed")>>
      [] event = "Select" -> <<AddPseudoState("Selected")>>
      [] event = "Deselect" -> <<RemovePseudoState("Selected")>>
      [] event = "Check" -> <<AddPseudoState("Checked")>>
      [] event = "Uncheck" -> <<RemovePseudoState("Checked")>>
      [] event = "Fold" -> <<AddPseudoState("Folded")>>
      [] event = "Unfold" -> <<RemovePseudoState("Folded")>>

\* The commands each detect_*_reactor queues for its event (lines 10-118);
\* the entity exists, so c.get_entity(entity) is Some.
detect_reactor(event) ==
    CASE event = "Enable" -> <<AddPseudoState("Enabled"), RemovePseudoState("Disabled")>>
      [] event = "Disable" -> <<AddPseudoState("Disabled"), RemovePseudoState("Enabled")>>
      [] event = "Select" -> <<AddPseudoState("Selected")>>
      [] event = "Deselect" -> <<RemovePseudoState("Selected")>>
      [] event = "Check" -> <<AddPseudoState("Checked")>>
      [] event = "Uncheck" -> <<RemovePseudoState("Checked")>>
      [] event = "Open" -> <<AddPseudoState("Open"), RemovePseudoState("Closed")>>
      [] event = "Close" -> <<AddPseudoState("Closed"), RemovePseudoState("Open")>>
      [] event = "Fold" -> <<AddPseudoState("Folded")>>
      [] event = "Unfold" -> <<RemovePseudoState("Folded")>>

\* The pseudo states an event's reactor touches.
StatesOfEvent(event) == {detect_reactor(event)[i].arg : i \in 1..Len(detect_reactor(event))}

\* PseudoStates::has
has(states, state) == state \in states

\* An entity_has that takes a missing component for having every state.
entity_has_or_true(component, req) ==
    IF component = None THEN TRUE ELSE has(unwrap_or(component, {}), req)

\* An entity_has that counts a state as held as soon as a command adding it,
\* or an event whose reactor adds it, is queued.
entity_has_or_queued(component, req) ==
    \/ \E i \in 1..Len(ps_queue) :
          \/ ps_queue[i] = AddPseudoState(req)
          \/ /\ ps_queue[i].command = "entity_event"
             /\ AddPseudoState(req) \in
                   {detect_reactor(ps_queue[i].arg)[k] :
                        k \in 1..Len(detect_reactor(ps_queue[i].arg))}
    \/ (component # None /\ has(unwrap_or(component, {}), req))

\* entity_has (lines 280-284)
entity_has(component, req) ==
    IF component = None THEN FALSE ELSE has(unwrap_or(component, {}), req)

\* entity_has_any (lines 287-291)
entity_has_any(component, req) ==
    IF component = None THEN FALSE ELSE \E s \in req : has(unwrap_or(component, {}), s)

\* entity_has_all (lines 294-298): req.into_iter().any(|s| !states.has(s))
entity_has_all(component, req) ==
    IF component = None THEN FALSE ELSE \E s \in req : ~has(unwrap_or(component, {}), s)

\* The guard shared by try_insert and try_remove (lines 304-308, 319-323):
\* self.states.get(entity).map(|s| s.has(&state)).unwrap_or(false)
get_map_has(component, state) ==
    IF component = None THEN FALSE ELSE has(unwrap_or(component, {}), state)

\* What a try_* call returns and what it queues.
TryResult(returned, queued) == [returned |-> returned, queued |-> queued]

\* try_insert (lines 302-314)
try_insert(component, state) ==
    IF get_map_has(component, state) THEN TryResult(FALSE, <<>>)
    ELSE TryResult(TRUE, <<AddPseudoState(state)>>)

\* try_remove (lines 317-329)
try_remove(component, state) ==
    IF ~get_map_has(component, state) THEN TryResult(FALSE, <<>>)
    ELSE TryResult(TRUE, <<RemovePseudoState(state)>>)

\* The try_* functions that queue an event (lines 332-441): the state each
\* tests, whether the entity has to have it, and the event queued.
TryOps ==
    [ try_enable |-> [state |-> "Enabled", if_has |-> FALSE, event |-> "Enable"],
      try_disable |-> [state |-> "Disabled", if_has |-> FALSE, event |-> "Disable"],
      try_select |-> [state |-> "Selected", if_has |-> FALSE, event |-> "Select"],
      try_deselect |-> [state |-> "Selected", if_has |-> TRUE, event |-> "Deselect"],
      try_check |-> [state |-> "Checked", if_has |-> FALSE, event |-> "Check"],
      try_uncheck |-> [state |-> "Checked", if_has |-> TRUE, event |-> "Uncheck"],
      try_open |-> [state |-> "Open", if_has |-> FALSE, event |-> "Open"],
      try_close |-> [state |-> "Closed", if_has |-> FALSE, event |-> "Close"],
      try_fold |-> [state |-> "Folded", if_has |-> FALSE, event |-> "Fold"],
      try_unfold |-> [state |-> "Folded", if_has |-> TRUE, event |-> "Unfold"] ]

\* try_enable .. try_unfold: return false when the guard on entity_has
\* fails, otherwise queue the event and return true.
try_event(component, op) ==
    IF entity_has(component, TryOps[op].state) # TryOps[op].if_has THEN TryResult(FALSE, <<>>)
    ELSE TryResult(TRUE, <<EntityEvent(TryOps[op].event)>>)

\* AddPseudoState / RemovePseudoState applied to the entity: adding creates
\* the component when it is missing, removing leaves a missing component
\* missing.
ApplyCommand(component, cmd) ==
    IF cmd.command = "add_pseudo_state" THEN Some(unwrap_or(component, {}) \cup {cmd.arg})
    ELSE IF component = None THEN None
    ELSE Some(unwrap_or(component, {}) \ {cmd.arg})

RECURSIVE ApplyAll(_, _)
ApplyAll(component, cmds) ==
    IF cmds = <<>> THEN component
    ELSE ApplyAll(ApplyCommand(component, Head(cmds)), Tail(cmds))

\* A dispatch that runs the plugin's reactor and applies its commands
\* before the callback of the entity runs.
dispatch_reactor_first(event, component) ==
    [observed |-> ApplyAll(component, detect_reactor(event)),
     component |-> ApplyAll(component, detect_reactor(event)),
     queued |-> <<>>]

\* An entity event reaches the reactors: first the callback registered for
\* the entity through PseudoStateExt (lines 145-148), then the reactor the
\* plugin registered for any entity (lines 450-459), which only queues its
\* commands.
dispatch(event, component) ==
    [observed |-> component, component |-> component, queued |-> detect_reactor(event)]

NoTry == [op |-> "none", arg |-> {}, component |-> None, returned |-> FALSE, queued |-> <<>>]

NoObservation == [event |-> "none", states |-> None]

\* No entity with pseudo states, nothing queued.
PsInit ==
    /\ ps_family = {}
    /\ pseudo_states = None
    /\ ps_queue = <<>>
    /\ ps_last = NoTry
    /\ ps_observed = NoObservation

\* The pairs of states that exclude each other.
PseudoPairs == {{"Enabled", "Disabled"}, {"Open", "Closed"}}

HoldsPair(component) == \E pair \in PseudoPairs : pair \subseteq unwrap_or(component, {})

\* The pseudo states one widget uses together.
PseudoFamilies ==
    {{"Enabled", "Disabled"}, {"Open", "Closed"}, {"Selected"}, {"Checked"}, {"Folded"}}

\* One entity of one widget, with or without a PseudoStates component.
PsInputs ==
    /\ ps_family \in PseudoFamilies
    /\ pseudo_states \in {None} \cup {Some(s) : s \in SUBSET ps_family}
    /\ ps_queue = <<>>
    /\ ps_last = NoTry
    /\ ps_observed = NoObservation

Queue(cmds) ==
    /\ Len(ps_queue) + Len(cmds) <= MaxQueue
    /\ ps_queue' = ps_queue \o cmds

\* c.react().entity_event(entity, Event) from any system.
entity_event(event) ==
    /\ StatesOfEvent(event) \subseteq ps_family
    /\ Queue(<<EntityEvent(event)>>)
    /\ UNCHANGED <<ps_family, pseudo_states, ps_last, ps_observed>>

\* The queued entity event is processed: its reactors run, and what the
\* plugin's reactor queued is applied before the rest of the queue.
process_event ==
    /\ ps_queue # <<>>
    /\ Head(ps_queue).command = "entity_event"
    /\ LET d == dispatch(Head(ps_queue).arg, pseudo_states)
       IN  /\ ps_observed' = [event |-> Head(ps_queue).arg, states |-> d.observed]
           /\ pseudo_states' = d.component
           /\ ps_queue' = d.queued \o Tail(ps_queue)
    /\ UNCHANGED <<ps_family, ps_last>>

\* The queued add_pseudo_state or remove_pseudo_state is applied.
apply_command ==
    /\ ps_queue # <<>>
    /\ Head(ps_queue).command # "entity_event"
    /\ pseudo_states' = ApplyCommand(pseudo_states, Head(ps_queue))
    /\ ps_queue' = Tail(ps_queue)
    /\ UNCHANGED <<ps_family, ps_last, ps_observed>>

Returned(op, arg, result) ==
    /\ ps_last' = [op |-> op, arg |-> arg, component |-> pseudo_states,
                    returned |-> result.returned, queued |-> result.queued]
    /\ Queue(result.queued)
    /\ UNCHANGED <<ps_family, pseudo_states, ps_observed>>

call_try_event(op) ==
    /\ TryOps[op].state \in ps_family
    /\ Returned(op, {TryOps[op].state}, try_event(pseudo_states, op))

call_try_insert(state) ==
    /\ state \in ps_family
    /\ Returned("try_insert", {state}, try_insert(pseudo_states, state))

call_try_remove(state) ==
    /\ state \in ps_family
    /\ Returned("try_remove", {state}, try_remove(pseudo_states, state))

call_entity_has_any(req) ==
    /\ req \subseteq ps_family
    /\ Returned("entity_has_any", req, TryResult(entity_has_any(pseudo_states, req), <<>>))

call_entity_has_all(req) ==
    /\ req \subseteq ps_family
    /\ Returned("entity_has_all", req, TryResult(entity_has_all(pseudo_states, req), <<>>))

\* ------------------------------------------------------------------------
\* Style wrappers, field by field (ui_bevy/ui_ext/style_wrappers.rs)
\* ------------------------------------------------------------------------

\* Most fields of a wrapper that differ from its documented default.
MaxVaried == 2

\* Val::Auto, which is Val::default(), and Val::Px(n).
ValAuto == [val |-> "Auto", n |-> 0]

ValPx(n) == [val |-> "Px", n |-> n]

\* StyleRect { top, bottom, left, right } and UiRect, which has the same
\* four sides.
Rect(type, top, bottom, left, right) ==
    [type |-> type, top |-> top, bottom |-> bottom, left |-> left, right |-> right]

\* StyleRect::default_field (lines 32-35)
StyleRect_default_field == ValPx(0)

\* impl Default for StyleRect (lines 57-68)
StyleRect_default ==
    Rect("StyleRect", StyleRect_default_field, StyleRect_default_field,
         StyleRect_default_field, StyleRect_default_field)

\* impl Into<UiRect> for StyleRect (lines 44-55)
StyleRect_into(self) == Rect("UiRect", self.top, self.bottom, self.left, self.right)

\* impl Into<Overflow> for Clipping (lines 101-112)
Clipping_into(self) ==
    CASE self = "None" -> [x |-> "Visible", y |-> "Visible"]
      [] self = "ClipX" -> [x |-> "Clip", y |-> "Visible"]
      [] self = "ClipY" -> [x |-> "Visible", y |-> "Clip"]
      [] self = "ClipXY" -> [x |-> "Clip", y |-> "Clip"]

\* The Into impls of JustifyLines, JustifyMain, JustifyCross and
\* JustifySelfCross (lines 163-177, 245-258, 301-312, 345-357): the variant
\* of the same name in AlignContent, JustifyContent, AlignItems, AlignSelf.
JustifyLines_into(self) == [enum |-> "AlignContent", variant |-> self]

JustifyMain_into(self) == [enum |-> "JustifyContent", variant |-> self]

JustifyCross_into(self) == [enum |-> "AlignItems", variant |-> self]

JustifySelfCross_into(self) == [enum |-> "AlignSelf", variant |-> self]

DimsFields ==
    {"width", "height", "max_width", "max_height", "min_width", "min_height",
     "aspect_ratio", "border", "top", "bottom", "left", "right"}

ContentFlexFields ==
    {"clipping", "clip_margin", "padding", "flex_direction", "flex_wrap",
     "justify_lines", "justify_main", "justify_cross", "column_gap", "row_gap"}

SelfFlexFields == {"margin", "flex_basis", "flex_grow", "flex_shrink", "justify_self_cross"}

\* The fields of AbsoluteNode (lines 760-837) and of FlexNode (lines 918-1014).
FieldsOf(kind) ==
    IF kind = "AbsoluteNode" THEN DimsFields \cup ContentFlexFields
    ELSE DimsFields \cup ContentFlexFields \cup SelfFlexFields

\* Dims::default_top and Dims::default_left (lines 491-498)
Dims_default_top == ValPx(0)

Dims_default_left == ValPx(0)

\* impl Default for Dims (lines 501-520)
Dims_default ==
    [width |-> ValAuto, height |-> ValAuto, max_width |-> ValAuto, max_height |-> ValAuto,
     min_width |-> ValAuto, min_height |-> ValAuto, aspect_ratio |-> None,
     border |-> StyleRect_default, top |-> Dims_default_top, bottom |-> ValAuto,
     left |-> Dims_default_left, right |-> ValAuto]

\* ContentFlex::default_flex_wrap (lines 629-632)
ContentFlex_default_flex_wrap == "NoWrap"

\* impl Default for ContentFlex (lines 635-653)
ContentFlex_default ==
    [flex_wrap |-> ContentFlex_default_flex_wrap, clipping |-> "None",
     clip_margin |-> "default", padding |-> StyleRect_default, flex_direction |-> "Row",
     justify_lines |-> "FlexStart", justify_main |-> "FlexStart",
     justify_cross |-> "FlexStart", column_gap |-> ValAuto, row_gap |-> ValAuto]

\* impl Default for SelfFlex (lines 731-743)
SelfFlex_default ==
    [margin |-> StyleRect_default, flex_basis |-> ValAuto, flex_grow |-> F32Zero,
     flex_shrink |-> F32One, justify_self_cross |-> "Auto"]

\* Default::default() of the type of each field: Val::Auto, None, the
\* StyleRect default, the #[default] variant of the enums, 0.0 for f32.
FieldTypeDefault(field) ==
    CASE field \in {"border", "padding", "margin"} -> StyleRect_default
      [] field = "aspect_ratio" -> None
      [] field = "clipping" -> "None"
      [] field = "clip_margin" -> "default"
      [] field = "flex_direction" -> "Row"
      [] field = "flex_wrap" -> "NoWrap"
      [] field \in {"justify_lines", "justify_main", "justify_cross"} -> "FlexStart"
      [] field = "justify_self_cross" -> "Auto"
      [] field \in {"flex_grow", "flex_shrink"} -> F32Zero
      [] OTHER -> ValAuto

\* A default that gives every field the value its wrapper documents.
DocumentedDefault(kind) ==
    [field \in FieldsOf(kind) |->
        IF field \in DimsFields THEN Dims_default[field]
        ELSE IF field \in ContentFlexFields THEN ContentFlex_default[field]
        ELSE SelfFlex_default[field]]

\* #[derive(Default)] on AbsoluteNode (line 754) and FlexNode (line 912):
\* every field takes the default of its type.
DeriveDefault(kind) == [field \in FieldsOf(kind) |-> FieldTypeDefault(field)]

\* Node::default() of bevy_ui, by field; display is Flex and position_type
\* Relative, its rects are zero and flex_shrink is 1.
BevyNodeDefault ==
    [display |-> "Flex", position_type |-> "Relative",
     width |-> ValAuto, height |-> ValAuto, max_width |-> ValAuto, max_height |-> ValAuto,
     min_width |-> ValAuto, min_height |-> ValAuto, aspect_ratio |-> None,
     border |-> Rect("UiRect", ValPx(0), ValPx(0), ValPx(0), ValPx(0)),
     left |-> ValAuto, right |-> ValAuto, top |-> ValAuto, bottom |-> ValAuto,
     overflow |-> [x |-> "Visible", y |-> "Visible"], overflow_clip_margin |-> "default",
     padding |-> Rect("UiRect", ValPx(0), ValPx(0), ValPx(0), ValPx(0)),
     flex_direction |-> "Row", flex_wrap |-> "NoWrap",
     align_content |-> [enum |-> "AlignContent", variant |-> "Default"],
     justify_content |-> [enum |-> "JustifyContent", variant |-> "Default"],
     align_items |-> [enum |-> "AlignItems", variant |-> "Default"],
     column_gap |-> ValPx(0), row_gap |-> ValPx(0),
     margin |-> Rect("UiRect", ValPx(0), ValPx(0), ValPx(0), ValPx(0)),
     flex_basis |-> ValAuto, flex_grow |-> F32Zero, flex_shrink |-> F32One,
     align_self |-> [enum |-> "AlignSelf", variant |-> "Auto"]]

\* Dims::set_in_node (lines 475-489)
Dims_set_in_node(self, node) ==
    [node EXCEPT
        !.width = self.width,
        !.height = self.height,
        !.max_width = self.max_width,
        !.max_height = self.max_height,
        !.min_width = self.min_width,
        !.min_height = self.min_height,
        !.aspect_ratio = self.aspect_ratio,
        !.border = StyleRect_into(self.border),
        !.left = self.left,
        !.right = self.right,
        !.top = self.top,
        !.bottom = self.bottom]

\* ContentFlex::set_in_node (lines 616-627); flex_wrap is not among its
\* assignments.
ContentFlex_set_in_node(self, node) ==
    [node EXCEPT
        !.overflow = Clipping_into(self.clipping),
        !.overflow_clip_margin = self.clip_margin,
        !.padding = StyleRect_into(self.padding),
        !.flex_direction = self.flex_direction,
        !.align_content = JustifyLines_into(self.justify_lines),
        !.justify_content = JustifyMain_into(self.justify_main),
        !.align_items = JustifyCross_into(self.justify_cross),
        !.column_gap = self.column_gap,
        !.row_gap = self.row_gap]

\* SelfFlex::set_in_node (lines 721-728)
SelfFlex_set_in_node(self, node) ==
    [node EXCEPT
        !.margin = StyleRect_into(self.margin),
        !.flex_basis = self.flex_basis,
        !.flex_grow = self.flex_grow,
        !.flex_shrink = self.flex_shrink,
        !.align_self = JustifySelfCross_into(self.justify_self_cross)]

\* Dims { width: self.width, .. }, ContentFlex { .. } and SelfFlex { .. } as
\* the Into impls build them: each field from the field of the same name.
Part(self, fields) == [field \in fields |-> self[field]]

\* impl Into<Node> for AbsoluteNode (lines 839-876)
AbsoluteNode_into(self) ==
    LET node == [BevyNodeDefault EXCEPT !.display = "Flex", !.position_type = "Absolute"]
    IN  ContentFlex_set_in_node(Part(self, ContentFlexFields),
            Dims_set_in_node(Part(self, DimsFields), node))

\* impl Into<Node> for FlexNode (lines 1016-1061)
FlexNode_into(self) ==
    LET node == [BevyNodeDefault EXCEPT !.display = "Flex", !.position_type = "Relative"]
    IN  SelfFlex_set_in_node(Part(self, SelfFlexFields),
            ContentFlex_set_in_node(Part(self, ContentFlexFields),
                Dims_set_in_node(Part(self, DimsFields), node)))

VARIABLES
    style_kind,    \* "AbsoluteNode" or "FlexNode"
    style_made,    \* how the wrapper was made: "fields" or "default"
    style_in,      \* the wrapper, field by field
    style_out      \* the Node it was converted into, None before

styleVars == <<style_kind, style_made, style_in, style_out>>

\* No wrapper under conversion.
StyleInit ==
    /\ style_kind = "AbsoluteNode"
    /\ style_made = "default"
    /\ style_in = DeriveDefault("AbsoluteNode")
    /\ style_out = None

\* A value of each field that is not any default and differs from field to
\* field.
Varied ==
    [width |-> ValPx(1), height |-> ValPx(2), max_width |-> ValPx(3), max_height |-> ValPx(4),
     min_width |-> ValPx(5), min_height |-> ValPx(6), aspect_ratio |-> Some(F32One),
     border |-> Rect("StyleRect", ValPx(7), ValPx(8), ValPx(9), ValPx(10)),
     top |-> ValPx(11), bottom |-> ValPx(12), left |-> ValPx(13), right |-> ValPx(14),
     clipping |-> "ClipX", clip_margin |-> "margin", padding |->
        Rect("StyleRect", ValPx(15), ValPx(16), ValPx(17), ValPx(18)),
     flex_direction |-> "Column", flex_wrap |-> "Wrap", justify_lines |-> "Center",
     justify_main |-> "SpaceAround", justify_cross |-> "Stretch", column_gap |-> ValPx(19),
     row_gap |-> ValPx(20), margin |-> Rect("StyleRect", ValPx(21), ValPx(22), ValPx(23), ValPx(24)),
     flex_basis |-> ValPx(25), flex_grow |-> Normal(3, 0), flex_shrink |-> Normal(5, 0),
     justify_self_cross |-> "FlexEnd"]

\* The wrappers written with at most MaxVaried fields given.
StyleWrappers(kind) ==
    {[field \in FieldsOf(kind) |->
        IF field \in given THEN Varied[field] ELSE DocumentedDefault(kind)[field]] :
     given \in {g \in SUBSET FieldsOf(kind) : Cardinality(g) <= MaxVaried}}

StyleInputs ==
    /\ style_kind \in {"AbsoluteNode", "FlexNode"}
    /\ style_made = "fields"
    /\ style_in \in StyleWrappers(style_kind)
    /\ style_out = None

\* AbsoluteNode::default() or FlexNode::default()
call_default(kind) ==
    /\ style_kind' = kind
    /\ style_made' = "default"
    /\ style_in' = DeriveDefault(kind)
    /\ style_out' = None

\* let node: Node = wrapper.into()
call_into ==
    /\ style_out' = Some(IF style_kind = "AbsoluteNode" THEN AbsoluteNode_into(style_in)
                         ELSE FlexNode_into(style_in))
    /\ UNCHANGED <<style_kind, style_made, style_in>>

\* ------------------------------------------------------------------------
\* Specifications
\* ------------------------------------------------------------------------

vars == <<cbVars, regVars, worldVars, cacheVars, hexVars, psVars, styleVars>>

\* How many entries the first loop of a.append(alias, b) removes.
RemovedBy(a, alias, b) ==
    Len(stack[a]) - Len(RemoveDuplicates(stack[a], alias, stack[b], 1))

\* How many entries of the open file b.insert(name, value) replaces with
\* another value.
Replaced(b, name, value) ==
    IF name \in DOMAIN new_file[b] /\ new_file[b][name] # value THEN 1 ELSE 0

CBStep(logged) ==
    \/ \E b \in Buffers :
          /\ start_new_file(b)
          /\ log' = Log(logged, "start_new_file", 0)
          /\ UNCHANGED <<regVars, worldVars, cacheVars, hexVars, psVars, styleVars>>
    \/ \E b \in Buffers :
          /\ end_new_file(b)
          /\ log' = Log(logged, "end_new_file", 0)
          /\ UNCHANGED <<regVars, worldVars, cacheVars, hexVars, psVars, styleVars>>
    \/ \E b \in Buffers, name \in Names : \E value \in ValuesOf(b) :
          /\ insert(b, name, value)
          /\ log' = Log(logged, "insert", Replaced(b, name, value))
          /\ UNCHANGED <<regVars, worldVars, cacheVars, hexVars, psVars, styleVars>>
    \/ \E a \in Buffers, b \in Buffers :
          /\ Imports(a, b)
          /\ \E alias \in AliasesOf(b) :
                /\ append(a, alias, b)
                /\ log' = Log(logged, "append", RemovedBy(a, alias, b))
                /\ UNCHANGED <<regVars, worldVars, cacheVars, hexVars, psVars, styleVars>>

CBNext == CBStep(FALSE)

CBNextLogged == CBStep(TRUE)

RegNext ==
    \/ \E t \in TypeIds :
          /\ register_command(t)
          /\ UNCHANGED <<cbVars, worldVars, cacheVars, hexVars, psVars, styleVars>>
    \/ \E t \in TypeIds :
          /\ register_bundle(t)
          /\ UNCHANGED <<cbVars, worldVars, cacheVars, hexVars, psVars, styleVars>>
    \/ \E t \in TypeIds :
          /\ register_reactive(t)
          /\ UNCHANGED <<cbVars, worldVars, cacheVars, hexVars, psVars, styleVars>>
    \/ \E t \in TypeIds :
          /\ register_instruction(t)
          /\ UNCHANGED <<cbVars, worldVars, cacheVars, hexVars, psVars, styleVars>>

LoadNext ==
    \/ /\ enter_done
       /\ UNCHANGED <<cbVars, regVars, hexVars, psVars, styleVars>>
    \/ /\ load_with_initializer
       /\ UNCHANGED <<cbVars, regVars, hexVars, psVars, styleVars>>
    \/ \E doc \in Documents :
          /\ WellTyped(doc)
          /\ reload(doc)
          /\ UNCHANGED <<cbVars, regVars, hexVars, psVars, styleVars>>
    \/ \E c \in pending :
          /\ cycle_apply(c)
          /\ UNCHANGED <<cbVars, regVars, hexVars, psVars, styleVars>>
    \/ \E c \in pending :
          /\ cycle_revert(c)
          /\ UNCHANGED <<cbVars, regVars, hexVars, psVars, styleVars>>
    \/ /\ unbind
       /\ UNCHANGED <<cbVars, regVars, hexVars, psVars, styleVars>>
    \/ /\ despawn
       /\ UNCHANGED <<cbVars, regVars, hexVars, psVars, styleVars>>

WorldNext ==
    \/ \E t \in LoadTypes : \E loadable \in PayloadsOf(t) :
          /\ call_node_callback(t, loadable)
          /\ UNCHANGED <<cbVars, regVars, cacheVars, hexVars, psVars, styleVars>>
    \/ \E t \in TypeIds : \E v \in PayloadsOf(t) \ {Undecodable} :
          /\ call_instruction_apply(t, v)
          /\ UNCHANGED <<cbVars, regVars, cacheVars, hexVars, psVars, styleVars>>
    \/ \E t \in LoadTypes :
          /\ call_revert_callback(t)
          /\ UNCHANGED <<cbVars, regVars, cacheVars, hexVars, psVars, styleVars>>
    \/ /\ despawn_entity
       /\ UNCHANGED <<cbVars, regVars, cacheVars, hexVars, psVars, styleVars>>

HexNext ==
    \/ /\ call_hex_try_parse
       /\ UNCHANGED <<cbVars, regVars, worldVars, cacheVars, psVars, styleVars>>
    \/ /\ call_builtin_try_parse
       /\ UNCHANGED <<cbVars, regVars, worldVars, cacheVars, psVars, styleVars>>
    \/ /\ call_macro_try_parse
       /\ UNCHANGED <<cbVars, regVars, worldVars, cacheVars, psVars, styleVars>>
    \/ /\ call_hex_color
       /\ UNCHANGED <<cbVars, regVars, worldVars, cacheVars, psVars, styleVars>>
    \/ /\ call_try_from
       /\ UNCHANGED <<cbVars, regVars, worldVars, cacheVars, psVars, styleVars>>
    \/ /\ call_try_from_newtype_variant
       /\ UNCHANGED <<cbVars, regVars, worldVars, cacheVars, psVars, styleVars>>
    \/ /\ call_write_to
       /\ UNCHANGED <<cbVars, regVars, worldVars, cacheVars, psVars, styleVars>>

PsEventsNext ==
    \/ \E event \in PseudoEvents :
          /\ entity_event(event)
          /\ UNCHANGED <<cbVars, regVars, worldVars, cacheVars, hexVars, styleVars>>
    \/ /\ process_event
       /\ UNCHANGED <<cbVars, regVars, worldVars, cacheVars, hexVars, styleVars>>
    \/ /\ apply_command
       /\ UNCHANGED <<cbVars, regVars, worldVars, cacheVars, hexVars, styleVars>>

PsParamNext ==
    \/ \E op \in DOMAIN TryOps :
          /\ call_try_event(op)
          /\ UNCHANGED <<cbVars, regVars, worldVars, cacheVars, hexVars, styleVars>>
    \/ \E state \in ps_family :
          /\ call_try_insert(state)
          /\ UNCHANGED <<cbVars, regVars, worldVars, cacheVars, hexVars, styleVars>>
    \/ \E state \in ps_family :
          /\ call_try_remove(state)
          /\ UNCHANGED <<cbVars, regVars, worldVars, cacheVars, hexVars, styleVars>>
    \/ \E req \in SUBSET ps_family :
          /\ call_entity_has_any(req)
          /\ UNCHANGED <<cbVars, regVars, worldVars, cacheVars, hexVars, styleVars>>
    \/ \E req \in SUBSET ps_family :
          /\ call_entity_has_all(req)
          /\ UNCHANGED <<cbVars, regVars, worldVars, cacheVars, hexVars, styleVars>>
    \/ /\ process_event
       /\ UNCHANGED <<cbVars, regVars, worldVars, cacheVars, hexVars, styleVars>>
    \/ /\ apply_command
       /\ UNCHANGED <<cbVars, regVars, worldVars, cacheVars, hexVars, styleVars>>

StyleNext ==
    \/ \E kind \in {"AbsoluteNode", "FlexNode"} :
          /\ call_default(kind)
          /\ UNCHANGED <<cbVars, regVars, worldVars, cacheVars, hexVars, psVars>>
    \/ /\ call_into
       /\ UNCHANGED <<cbVars, regVars, worldVars, cacheVars, hexVars, psVars>>

\* Nothing registered, nothing loaded, nothing declared.
Init == CBInit /\ RegInit /\ WorldInit /\ CacheInit /\ HexInit /\ document = <<>> /\ PsInit /\ StyleInit

\* The app after its plugins were built.
InitLoaded == CBInit /\ RegisteredByPlugins /\ WorldInit /\ CacheInit /\ HexInit /\ PsInit /\ StyleInit

\* The constants resolution engine under any sequence of its operations.
SpecConstants == Init /\ [][CBNext]_vars

\* The same, recording the last operation and what it removed.
SpecConstantsLogged == Init /\ [][CBNextLogged]_vars

\* Registration of loadables during startup, in any order and any number of times.
SpecRegistry == Init /\ [][RegNext]_vars

\* The app after its plugins were built, with nothing declared.
InitWorld == InitLoaded /\ document = <<>>

\* The callbacks of the registry and the instructions called on one entity in any
\* order, with any value.
SpecWorld == InitWorld /\ [][WorldNext]_vars

\* Loading and hot reloading of one entity bound to one scene reference.
SpecLoad == InitLoaded /\ [][LoadNext]_vars

\* One input with nothing else going on.
InitHex == CBInit /\ RegInit /\ WorldInit /\ CacheInit /\ document = <<>> /\ HexInputs /\ PsInit /\ StyleInit

\* The builtin parser, writer and converter applied to one input.
SpecHex == InitHex /\ [][HexNext]_vars

\* One entity whose pseudo states do not hold both states of a pair.
InitPseudoEvents ==
    CBInit /\ RegInit /\ WorldInit /\ CacheInit /\ HexInit /\ document = <<>> /\ PsInputs
        /\ ~HoldsPair(pseudo_states)
        /\ StyleInit

\* Entity events sent to one entity and processed.
SpecPseudoEvents == InitPseudoEvents /\ [][PsEventsNext]_vars

\* One entity with any pseudo states.
InitPseudo == CBInit /\ RegInit /\ WorldInit /\ CacheInit /\ HexInit /\ document = <<>> /\ PsInputs /\ StyleInit

\* PseudoStateParam called on one entity, and what it queues processed.
SpecPseudo == InitPseudo /\ [][PsParamNext]_vars

\* The commands queued are applied: a system's Commands and the reactions
\* they schedule are flushed before the schedule goes on.
FlushQueue ==
    /\ (process_event \/ apply_command)
    /\ UNCHANGED <<cbVars, regVars, worldVars, cacheVars, hexVars, styleVars>>

\* SpecPseudo, where what is queued is applied in the end.
SpecPseudoFlushed == InitPseudo /\ [][PsParamNext]_vars /\ WF_vars(FlushQueue)

\* One wrapper, written out or default-constructed, converted into a Node.
InitStyle ==
    CBInit /\ RegInit /\ WorldInit /\ CacheInit /\ HexInit /\ document = <<>> /\ PsInit
        /\ StyleInputs

SpecStyle == InitStyle /\ [][StyleNext]_vars

\* ------------------------------------------------------------------------
\* Vocabulary of the claims about the constants buffer
\* ------------------------------------------------------------------------

AllAliases == UNION {AliasesOf(b) : b \in Buffers}

\* The text "first::second", where an empty part adds neither segment nor separator.
Joined(first, second) ==
    IF first = <<>> THEN second
    ELSE IF second = <<>> THEN first
    ELSE first \o <<":", ":">> \o second

\* The prefixes the import chain A -> B -> C can give.
ChainPrefixes == {Joined(a1, a2) : a1 \in AliasesOf("B"), a2 \in AliasesOf("C")}

\* Names looked up: the declared ones and one that no file declares.
LookupNames == Names \cup {<<"y">>}

\* Paths as a file writes them: a chain of aliases, then a name, with or without the
\* separator between the two.
WrittenPaths ==
    {Joined(p, n) : p \in ChainPrefixes, n \in LookupNames}
        \cup {p \o n : p \in ChainPrefixes, n \in Names}

\* Every path looked up: the written ones, and those with a leading separator.
QueryPaths == WrittenPaths \cup {<<":", ":">> \o n : n \in Names}

Top(st) == st[Len(st)]

\* What is left of path after the prefix and one optional separator.
Remainder(path, prefix) ==
    LET rest == SubSeq(path, Len(prefix) + 1, Len(path)) IN
    IF Len(rest) >= 2 /\ rest[1] = ":" /\ rest[2] = ":"
    THEN SubSeq(rest, 3, Len(rest)) ELSE rest

\* Entry e resolves path: the path starts with its prefix and its map holds the rest.
Resolves(e, path) ==
    /\ Len(e.prefix) <= Len(path)
    /\ \A k \in 1..Len(e.prefix) : path[k] = e.prefix[k]
    /\ Remainder(path, e.prefix) \in DOMAIN maps[e.map]

ResolvedValue(e, path) == maps[e.map][Remainder(path, e.prefix)]

\* The positions of st whose entries resolve path.
Resolving(st, path) == {i \in 1..Len(st) : Resolves(st[i], path)}

Newest(S) == CHOOSE i \in S : \A j \in S : j <= i

\* ------------------------------------------------------------------------
\* C3
\* ------------------------------------------------------------------------

\* C3: after any sequence of start_new_file, insert, end_new_file and append, no stack
\* holds two entries with the same prefix and the same shared map (same Arc).
C3_NoDuplicateEntries ==
    \A b \in Buffers : \A i \in 1..Len(stack[b]) : \A j \in 1..Len(stack[b]) :
        (i # j) => ~(/\ stack[b][i].prefix = stack[b][j].prefix
                     /\ stack[b][i].map = stack[b][j].map)

\* The diamond: C's map reached A through B and is then appended again from C under
\* the same prefix; the append removed the older entry and A holds the map once.
C3_Witness ==
    /\ log.op = "append"
    /\ log.removed >= 1
    /\ \E m \in 1..Len(maps) : \E p \in ChainPrefixes :
          /\ [prefix |-> <<>>, map |-> m] \in {stack["C"][i] : i \in 1..Len(stack["C"])}
          /\ \E i \in 1..Len(stack["B"]) : stack["B"][i].map = m
          /\ Cardinality({i \in 1..Len(stack["A"]) :
                            stack["A"][i] = [prefix |-> p, map |-> m]}) = 1

\* ------------------------------------------------------------------------
\* C4
\* ------------------------------------------------------------------------

\* C4: while a file is being processed, get(path) returns the value the file itself
\* inserted under that exact path whenever there is one, whatever the stack holds.
C4_OwnDeclarationsShadowImports ==
    \A b \in Buffers : \A path \in QueryPaths :
        (path \in DOMAIN new_file[b]) => get(b, path) = Some(new_file[b][path])

\* A declares x = 2 while an imported entry with an empty prefix resolves x to 1.
C4_Witness ==
    /\ <<"x">> \in DOMAIN new_file["A"]
    /\ new_file["A"][<<"x">>] = 2
    /\ \E i \in Resolving(stack["A"], <<"x">>) :
          ResolvedValue(stack["A"][i], <<"x">>) = 1
    /\ get("A", <<"x">>) = Some(2)

\* ------------------------------------------------------------------------
\* C5
\* ------------------------------------------------------------------------

\* The step is a.append(alias, b): a's stack changed, no map was made, and a's new
\* stack ends with b's entries under the alias.
IsAppendStep(a, alias, b) ==
    /\ maps' = maps
    /\ stack'[a] # stack[a]
    /\ a # b
    /\ Len(stack'[a]) >= Len(stack[b])
    /\ \A k \in 1..Len(stack[b]) :
          LET e == stack'[a][Len(stack'[a]) - Len(stack[b]) + k] IN
          /\ e.map = stack[b][k].map
          /\ e.prefix = Joined(alias, stack[b][k].prefix)
    /\ \A c \in Buffers \ {a} : stack'[c] = stack[c]

\* A path is resolved from the stack only by an entry whose prefix it starts with,
\* after the prefix and one optional separator are stripped.
C5_OnlyMatchingPrefixResolves ==
    \A b \in Buffers : \A path \in QueryPaths :
        (path \notin DOMAIN new_file[b]) =>
            /\ (Resolving(stack[b], path) = {}) => get(b, path) = None
            /\ (Resolving(stack[b], path) # {}) =>
                  \E i \in Resolving(stack[b], path) :
                      get(b, path) = Some(ResolvedValue(stack[b][i], path))

\* After a.append(alias, b) with a non-empty alias, alias::name resolves in a to what
\* b's frozen maps resolve name to.
C5_AliasedLookupAfterAppend ==
    \A a \in Buffers : \A b \in Buffers : \A alias \in AllAliases \ {<<>>} :
        IsAppendStep(a, alias, b) =>
            \A n \in Names :
                (FindMapRev(stack[b], Len(stack[b]), n) # None) =>
                    (get(a, Joined(alias, n)))' = FindMapRev(stack[b], Len(stack[b]), n)

\* C5: after A appends B under alias b, where B ended its file having declared x,
\* A.get("b::x") returns B's x; and a path is resolved from a stack entry only if it
\* starts with the entry's prefix, the prefix and one optional "::" being stripped.
C5_PrefixedLookup ==
    /\ []C5_OnlyMatchingPrefixResolves
    /\ [][C5_AliasedLookupAfterAppend]_vars

\* B's own frozen map, on top of B's stack, holds x; A holds it under prefix b on top
\* of its stack and resolves b::x to B's value.
C5_Witness ==
    /\ stack["A"] # <<>> /\ stack["B"] # <<>>
    /\ Top(stack["B"]).prefix = <<>>
    /\ <<"x">> \in DOMAIN maps[Top(stack["B"]).map]
    /\ Top(stack["A"]) = [prefix |-> <<"b">>, map |-> Top(stack["B"]).map]
    /\ get("A", <<"b", ":", ":", "x">>) = Some(maps[Top(stack["B"]).map][<<"x">>])
    /\ get("A", <<"x">>) = None

\* ------------------------------------------------------------------------
\* C6
\* ------------------------------------------------------------------------

\* C6: when more than one stack entry resolves the same path (and the open file does
\* not declare it), get returns the value of the entry pushed most recently.
C6_NewestImportWins ==
    \A b \in Buffers : \A path \in QueryPaths :
        (path \notin DOMAIN new_file[b] /\ Resolving(stack[b], path) # {}) =>
            get(b, path) =
                Some(ResolvedValue(stack[b][Newest(Resolving(stack[b], path))], path))

\* Two entries of A resolve x to different values and get returns the later one.
C6_Witness ==
    \E i \in Resolving(stack["A"], <<"x">>) : \E j \in Resolving(stack["A"], <<"x">>) :
        /\ i < j
        /\ j = Len(stack["A"])
        /\ ResolvedValue(stack["A"][i], <<"x">>) # ResolvedValue(stack["A"][j], <<"x">>)
        /\ <<"x">> \notin DOMAIN new_file["A"]
        /\ get("A", <<"x">>) = Some(ResolvedValue(stack["A"][j], <<"x">>))

\* ------------------------------------------------------------------------
\* C7
\* ------------------------------------------------------------------------

\* Every step that changes a stack without making a map is an append of some buffer
\* under some alias: the new stack ends with that buffer's entries, each prefix
\* being the alias joined to the old prefix.
C7_AppendReprefixes ==
    \A a \in Buffers :
        (maps' = maps /\ stack'[a] # stack[a]) =>
            \E b \in Buffers : \E alias \in AllAliases : IsAppendStep(a, alias, b)

\* What b's frozen maps resolve a written path to, a resolves under the alias.
C7_TransitiveLookup ==
    \A a \in Buffers : \A b \in Buffers : \A alias \in AllAliases :
        IsAppendStep(a, alias, b) =>
            \A q \in WrittenPaths :
                (/\ FindMapRev(stack[b], Len(stack[b]), q) # None
                 /\ Joined(alias, q) \notin DOMAIN new_file[a]) =>
                    (get(a, Joined(alias, q)))' = FindMapRev(stack[b], Len(stack[b]), q)

\* C7: append prepends the alias to every prefix of the appended buffer's entries, an
\* empty alias or prefix adding no segment and no separator, so imports are
\* re-exported transitively (A.get("b::c::x") is C's x).
C7_TransitiveReexport == [][C7_AppendReprefixes /\ C7_TransitiveLookup]_vars

\* C froze x, B appended C under c, A appended B under b: A resolves b::c::x.
C7_Witness ==
    \E m \in 1..Len(maps) :
        /\ <<"x">> \in DOMAIN maps[m]
        /\ stack["C"] # <<>> /\ stack["B"] # <<>> /\ stack["A"] # <<>>
        /\ Top(stack["C"]) = [prefix |-> <<>>, map |-> m]
        /\ Top(stack["B"]) = [prefix |-> <<"c">>, map |-> m]
        /\ Top(stack["A"]) = [prefix |-> <<"b", ":", ":", "c">>, map |-> m]
        /\ get("A", <<"b", ":", ":", "c", ":", ":", "x">>) = Some(maps[m][<<"x">>])

\* ------------------------------------------------------------------------
\* C8
\* ------------------------------------------------------------------------

\* The identities of the maps some stack holds.
StackedMaps == UNION {{stack[c][k].map : k \in 1..Len(stack[c])} : c \in Buffers}

\* C8: end_new_file moves exactly what was inserted since start_new_file into a new
\* shared map pushed on top of the stack with an empty prefix and leaves new_file
\* empty; start_new_file empties new_file without touching the stack; append never
\* copies new_file: every map an append pushes was frozen by an earlier end_new_file.
C8_FileLifecycle ==
    [][ /\ (log'.op = "start_new_file") =>
              \E b \in Buffers :
                  /\ new_file' = [new_file EXCEPT ![b] = <<>>]
                  /\ stack' = stack /\ maps' = maps
        /\ (log'.op = "insert") =>
              \E b \in Buffers : \E n \in Names : \E v \in Values :
                  /\ new_file'[b] = [key \in (DOMAIN new_file[b]) \cup {n} |->
                                        IF key = n THEN v ELSE new_file[b][key]]
                  /\ \A c \in Buffers \ {b} : new_file'[c] = new_file[c]
        /\ (log'.op = "end_new_file") =>
              \E b \in Buffers :
                  /\ Len(maps') = Len(maps) + 1
                  /\ maps'[Len(maps')] = new_file[b]
                  /\ stack' = [stack EXCEPT
                                  ![b] = Append(@, [prefix |-> <<>>, map |-> Len(maps')])]
                  /\ new_file' = [new_file EXCEPT ![b] = <<>>]
        /\ (log'.op = "append") =>
              /\ maps' = maps
              /\ new_file' = new_file
              /\ StackedMaps' \subseteq StackedMaps
      ]_vars

\* end_new_file has just frozen a file that declared x.
C8_Witness ==
    /\ log.op = "end_new_file"
    /\ \E b \in Buffers :
          /\ stack[b] # <<>>
          /\ Top(stack[b]) = [prefix |-> <<>>, map |-> Len(maps)]
          /\ <<"x">> \in DOMAIN maps[Len(maps)]
          /\ new_file[b] = <<>>

\* ------------------------------------------------------------------------
\* C9
\* ------------------------------------------------------------------------

\* C9: once a map is on a stack no operation changes its contents: insert changes
\* only the open new_file, and append(alias, other) changes neither other nor any
\* map, only the target's stack, whose new entries carry the source's map identities.
C9_FrozenMapsAreImmutable ==
    [][ /\ Len(maps') >= Len(maps)
        /\ \A m \in 1..Len(maps) : maps'[m] = maps[m]
        /\ (log'.op = "insert") => (stack' = stack /\ maps' = maps)
        /\ (log'.op = "append") =>
              /\ maps' = maps
              /\ new_file' = new_file
              /\ (stack' # stack) =>
                    \E a \in Buffers : \E b \in Buffers \ {a} :
                        /\ \A c \in Buffers \ {a} : stack'[c] = stack[c]
                        /\ Len(stack'[a]) >= Len(stack[b])
                        /\ \A j \in 1..Len(stack[b]) :
                              stack'[a][Len(stack'[a]) - Len(stack[b]) + j].map
                                  = stack[b][j].map
      ]_vars

\* An append has made A and B hold the same, non-empty, map.
C9_Witness ==
    /\ log.op = "append"
    /\ \E i \in 1..Len(stack["A"]) : \E k \in 1..Len(stack["B"]) :
          /\ stack["A"][i].map = stack["B"][k].map
          /\ maps[stack["A"][i].map] # <<>>

\* ------------------------------------------------------------------------
\* C2
\* ------------------------------------------------------------------------

\* C2: registering a type identity again does not fail, and afterwards the registry
\* holds the newest registration: the getters return the callbacks of the later call.
C2_NewestRegistrationWins ==
    \A t \in TypeIds :
        /\ (lastRegistered[t].command # None) =>
              get_for_command(t) = lastRegistered[t].command
        /\ (lastRegistered[t].node # None) =>
              /\ get_for_node(t) = lastRegistered[t].node
              /\ get_for_revert(t) = lastRegistered[t].revert

\* ------------------------------------------------------------------------
\* Vocabulary of the claims about loading and reloading
\* ------------------------------------------------------------------------

\* The loadable of type t is present on the entity.
Present(t) ==
    IF t = "CobwebNode" THEN comps.cobweb_node # None
    ELSE ReactComponent(comps, t) # None

\* Every payload the document declares decodes into its type.
AllDecode == \A t \in DOMAIN document : get_value(document[t]) # None

\* No cycle is running on the bound, living entity.
CycleComplete == bound /\ alive /\ pending = {}

\* C1: whenever a load or reload cycle of a bound target has completed, the
\* loadables present on the target are exactly the loadables the document
\* declares (all of them well-formed), whatever the order in which the cycle
\* made its revert and apply calls.
C1_NetStateEqualsDeclared ==
    (CycleComplete /\ AllDecode) =>
        \A t \in LoadTypes : Present(t) <=> t \in DOMAIN document

\* C10: the applied-set of a target never lists a loadable whose side effects are
\* not on the target: an apply that did nothing, because the value did not decode
\* or the entity is gone, leaves no record.
C10_AppliedSetInSync ==
    \A t \in DOMAIN applied : alive /\ Present(t)

\* ------------------------------------------------------------------------
\* C11
\* ------------------------------------------------------------------------

\* C11: once a bound target with applied loadables was unbound and the reverts this
\* queued were made (in any order), the revert callback of every loadable that was
\* applied has run exactly once, no other revert callback has run, none of these
\* loadables is left on the target and the applied-set is empty.
C11_UnbindRevertsAll ==
    /\ \A t \in LoadTypes : history.reverts[t] <= 1
    /\ (history.unbound # {} /\ pending = {}) =>
          /\ applied = <<>>
          /\ \A t \in LoadTypes :
                history.reverts[t] = (IF t \in history.unbound THEN 1 ELSE 0)
          /\ alive => \A t \in history.unbound : ~Present(t)

\* Three applied loadable types were reverted by an unbind.
C11_Witness ==
    /\ alive /\ ~bound /\ pending = {}
    /\ history.unbound = TypeIds
    /\ \A t \in TypeIds : history.reverts[t] = 1
    /\ comps.node = Some(NodeDefault)

\* ------------------------------------------------------------------------
\* C12
\* ------------------------------------------------------------------------

\* C12: a load requested while the app state is not LoadState::Done is abandoned:
\* it queues no apply or revert call, does not bind the entity, and leaves the
\* components of the entity exactly as they were.
C12_AbandonedLoadChangesNothing ==
    [][ (load_state # "Done" /\ load_state' # "Done" /\ alive') =>
            /\ pending' = {}
            /\ ~bound'
            /\ applied' = applied
            /\ comps' = comps
      ]_vars

\* ------------------------------------------------------------------------
\* C13
\* ------------------------------------------------------------------------

\* C13: applying or reverting any loadable for an entity that no longer exists is
\* a no-op: whatever loader, reverter or instruction is called, the entity gets no
\* component and no notification fires.
C13_MissingEntityIsNoOp ==
    ~alive => comps = NoComponents

\* A revert callback was called for the despawned entity.
C13_Witness ==
    /\ ~alive
    /\ last_call.call = "revert_callback"
    /\ last_call.type = "AbsoluteNode"

\* ------------------------------------------------------------------------
\* C14
\* ------------------------------------------------------------------------

\* The value of the component a loadable of type t puts on the entity.
LoadedValue(c, t) ==
    IF t = "CobwebNode" THEN c.cobweb_node ELSE ReactComponent(c, t)

\* C14: an apply call of a cycle whose declared value does not decode changes no
\* component of the living target and fires no notification; every other apply
\* call of the cycle, before or after it, still puts its value on the target.
C14_DecodeFailureSkipsOneDeclaration ==
    [][ \A call \in pending :
            (call.call = "apply" /\ pending' = pending \ {call} /\ alive) =>
                IF get_value(call.loadable) = None
                THEN comps' = [comps EXCEPT !.events = <<>>]
                ELSE LoadedValue(comps', call.type) = Some(call.loadable)
      ]_vars

\* A cycle has ended for a document with an undecodable Counter next to a
\* CobwebNode: the bundle is on the entity, the counter is not.
C14_Witness ==
    /\ CycleComplete
    /\ document = [t \in {"Counter", "CobwebNode"} |->
                      IF t = "Counter" THEN Undecodable ELSE 1]
    /\ DOMAIN applied = DOMAIN document
    /\ comps.cobweb_node = Some(1)
    /\ comps.counter = None

\* ------------------------------------------------------------------------
\* C15
\* ------------------------------------------------------------------------

\* The types whose loadable is a React<T> component.
ReactiveTypes == TypeIds \cup {"Counter"}

\* C15: a reactive loader or a style instruction applied with a value v to a
\* living entity that holds the React<T> overwrites it and fires exactly one
\* notification, a mutation that sees v; applied to an entity without the
\* component it inserts v and fires exactly one notification, an insertion.
C15_InPlaceOverwriteNotifiesOnce ==
    [][ ( /\ last_call'.call \in {"node_callback", "instruction_apply"}
          /\ last_call'.type \in ReactiveTypes
          /\ get_value(last_call'.loadable) # None
          /\ alive ) =>
            /\ ReactComponent(comps', last_call'.type) = Some(last_call'.loadable)
            /\ comps'.events =
                  << [kind |-> IF ReactComponent(comps, last_call'.type) # None
                               THEN "mutation" ELSE "insertion",
                      type |-> last_call'.type,
                      value |-> Some(last_call'.loadable)] >>
      ]_vars

\* The reactive loader has overwritten a Counter in place.
C15_Witness ==
    /\ alive
    /\ last_call = [call |-> "node_callback", type |-> "Counter", loadable |-> 2]
    /\ comps.counter = Some(2)
    /\ comps.events = << [kind |-> "mutation", type |-> "Counter", value |-> Some(2)] >>

\* ------------------------------------------------------------------------
\* Vocabulary of the hex color claims
\* ------------------------------------------------------------------------

StartsWithHash(content) == content # <<>> /\ Head(content) = "#"

\* The number of hex digits written after the '#'.
DigitCount(content) == HexPrefixLen(Tail(content))

\* The digits written after the '#'.
DigitsOf(content) == SubSeq(Tail(content), 1, DigitCount(content))

\* What is written after the digits.
AfterDigits(content) == SubSeq(content, DigitCount(content) + 2, Len(content))

\* The byte two hex digits denote.
PairValue(pair) == (to_digit(pair[1]) * 16) + to_digit(pair[2])

\* The i-th pair of digits after the '#', as a byte.
PairAt(content, i) == PairValue(SubSeq(DigitsOf(content), (2 * i) - 1, 2 * i))

HexParsed == hex_out.op = "CafHexColor::try_parse"

ReturnedNode == unwrap_or(hex_out.result.node, CafHexColor(NoFill, SrgbaDefault))

\* ------------------------------------------------------------------------
\* C16: CafHexColor::try_parse accepts '#' followed by exactly six hex
\* digits (alpha left at 1) or exactly eight, and returns the color with
\* the remaining span right after the digits (the whitespace that follows
\* is the next fill), without an overflow in the length computation and
\* without a panic.
\* ------------------------------------------------------------------------
C16_SixOrEightDigitsAccepted ==
    (HexParsed /\ StartsWithHash(hex_content) /\ DigitCount(hex_content) \in {6, 8}) =>
        /\ hex_out.result.kind = "Ok"
        /\ hex_out.result.node # None
        /\ hex_out.result.fill \o hex_out.result.remaining = AfterDigits(hex_content)
        /\ DigitCount(hex_content) = 6 => ReturnedNode.color.alpha = F32One

\* ------------------------------------------------------------------------
\* C17: after a leading '#' try_parse never reports "no match": with 0 to
\* 5, 7, or 9 and more hex digits it returns Err, never Ok(None) and never
\* a color with hex digits left over; an input that does not start with
\* '#' gives Ok(None).
\* ------------------------------------------------------------------------
C17_HashCommitsTheParser ==
    HexParsed =>
        IF StartsWithHash(hex_content)
        THEN /\ DigitCount(hex_content) \notin {6, 8} => hex_out.result.kind = "Err"
             /\ ~(hex_out.result.kind = "Ok" /\ hex_out.result.node = None)
             /\ (hex_out.result.kind = "Ok" /\ hex_out.result.node # None) =>
                    HexPrefixLen(hex_out.result.remaining) = 0
        ELSE hex_out.result.kind = "Ok" /\ hex_out.result.node = None

\* The channels of a color as bytes, the way the writer converts them.
ChannelBytes(color) ==
    [red |-> ChannelToByte(color.red), green |-> ChannelToByte(color.green),
     blue |-> ChannelToByte(color.blue), alpha |-> ChannelToByte(color.alpha)]

\* The color lines 114-120 build for a written color.
Reparsed(text) == hex_color(DigitCount(text), parse_hex_u32(Tail(text)).value)

\* ------------------------------------------------------------------------
\* C18: the color built for #RRGGBB has red = 0xRR/255, green = 0xGG/255
\* and blue = 0xBB/255, the color built for #AARRGGBB has alpha = 0xAA/255
\* in addition, and writing that color and parsing what was written yields
\* the same channel bytes.
\* ------------------------------------------------------------------------
C18_ChannelsAreTheDigitPairs ==
    (hex_out.op = "hex_color" /\ DigitCount(hex_content) \in {6, 8}) =>
        LET color == ReturnedNode.color
            first == IF DigitCount(hex_content) = 8 THEN 2 ELSE 1
        IN  /\ color.red = ByteToChannel(PairAt(hex_content, first))
            /\ color.green = ByteToChannel(PairAt(hex_content, first + 1))
            /\ color.blue = ByteToChannel(PairAt(hex_content, first + 2))
            /\ DigitCount(hex_content) = 8 => color.alpha = ByteToChannel(PairAt(hex_content, 1))
            /\ ChannelBytes(Reparsed(CafHexColor_write_to_with_space(ReturnedNode, <<>>))) = ChannelBytes(color)

\* ------------------------------------------------------------------------
\* C19: CafBuiltin::try_parse accepts hex colors (upper or lower case, with
\* or without an alpha pair, alpha FF included) and dimension values, and
\* for every input it accepts write_to reproduces exactly the bytes that
\* were consumed: the leading fill and the text up to the next fill.
\* ------------------------------------------------------------------------
C19_WriteReproducesConsumedBytes ==
    /\ (hex_out.op = "CafBuiltin::try_parse" /\ StartsWithHash(hex_content)
            /\ DigitCount(hex_content) \in {6, 8}) =>
          hex_out.result.kind = "Ok" /\ hex_out.result.node # None
    /\ (hex_out.op \in {"CafBuiltin::try_parse", "hex_color"} /\ hex_written # None) =>
          unwrap_or(hex_written, <<>>) \o hex_out.result.fill \o hex_out.result.remaining
              = hex_fill \o hex_content

\* A channel that a byte represents exactly: converting it to its byte and
\* the byte back gives the channel again.
IsWholeByte(channel) == ByteToChannel(F64Times255AsU8(channel)) = channel

\* ------------------------------------------------------------------------
\* C20: CafHexColor::try_from(Srgba), and try_from_newtype_variant for
\* Color::Srgba, succeed only if every channel converts to a byte and back
\* to exactly the original value; a channel that is not a whole byte, such
\* as one that differs from it by a subnormal amount, makes them fail.
\* ------------------------------------------------------------------------
C20_TryFromOnlyLossless ==
    (/\ hex_out.op \in {"CafHexColor::try_from", "CafBuiltin::try_from_newtype_variant"}
     /\ hex_out.result.kind = "Ok"
     /\ hex_out.result.node # None) =>
        /\ IsWholeByte(hex_srgba.red)
        /\ IsWholeByte(hex_srgba.green)
        /\ IsWholeByte(hex_srgba.blue)
        /\ IsWholeByte(hex_srgba.alpha)

\* ------------------------------------------------------------------------
\* Vocabulary of the dimension value claims
\* ------------------------------------------------------------------------

BuiltinParsed == hex_out.op = "CafBuiltin::try_parse"

\* The text is the number, the unit, and then something that does not
\* continue the unit's word.
IsDimension(content, number, unit) ==
    /\ starts_with(content, number \o unit)
    /\ LET rest == SubSeq(content, Len(number) + Len(unit) + 1, Len(content))
       IN  rest = <<>> \/ Head(rest) \notin SnakeChars

\* ------------------------------------------------------------------------
\* C21: CafBuiltin::try_parse turns a number followed by %, a number
\* followed by px, and auto into Percent, Px and Auto of that number, and
\* never accepts a number followed by a word that merely begins with a
\* unit: what remains after an accepted dimension value does not continue
\* the unit's word (no Px with a leftover x for 1pxx).
\* ------------------------------------------------------------------------
C21_DimensionValuesParsed ==
    BuiltinParsed =>
        /\ IsDimension(hex_content, <<"1">>, <<"%">>) =>
              hex_out.result.node = Some(CafBuiltinVal(hex_fill, Some(<<"1">>), "Percent"))
        /\ IsDimension(hex_content, <<"1", "2">>, <<"p", "x">>) =>
              hex_out.result.node = Some(CafBuiltinVal(hex_fill, Some(<<"1", "2">>), "Px"))
        /\ IsDimension(hex_content, <<>>, Auto) =>
              hex_out.result.node = Some(CafBuiltinVal(hex_fill, None, "Auto"))
        /\ (hex_out.result.kind = "Ok" /\ hex_out.result.node # None /\ hex_out.result.fill = NoFill) =>
              (hex_out.result.remaining = <<>> \/ Head(hex_out.result.remaining) \notin SnakeChars)

\* ------------------------------------------------------------------------
\* C22: whenever CafHexColor::try_parse, CafBuiltin::try_parse or
\* CafDataMacroCall::try_parse reports no match (Ok(None)), the fill and
\* the span it returns are the fill and the span it was given, also when a
\* number was parsed and no unit followed it.
\* ------------------------------------------------------------------------
C22_NoMatchConsumesNothing ==
    (/\ hex_out.op \in {"CafHexColor::try_parse", "CafBuiltin::try_parse", "CafDataMacroCall::try_parse"}
     /\ hex_out.result.kind = "Ok"
     /\ hex_out.result.node = None) =>
        /\ hex_out.result.fill = hex_fill
        /\ hex_out.result.remaining = hex_content

\* A number without a unit, after a fill, reported as no match.
C22_Witness ==
    /\ BuiltinParsed
    /\ hex_content = <<"1", "]">>
    /\ hex_fill = <<" ">>
    /\ hex_out.result.kind = "Ok"
    /\ hex_out.result.node = None

\* ------------------------------------------------------------------------
\* C23: PseudoStateParam::entity_has_all returns true if and only if the
\* entity has every one of the requested pseudo states, and false for an
\* entity without a PseudoStates component.
\* ------------------------------------------------------------------------
C23_EntityHasAll ==
    ps_last.op = "entity_has_all" =>
        ps_last.returned =
            (ps_last.component # None /\ ps_last.arg \subseteq unwrap_or(ps_last.component, {}))

\* ------------------------------------------------------------------------
\* C24: once an Enable event has been processed and the commands it queued
\* are applied, the entity has Enabled and not Disabled, and symmetrically
\* for Disable, Open and Close; started without both states of a pair, no
\* sequence of events reaches a settled state that holds both.
\* ------------------------------------------------------------------------
\* No command of a reactor is waiting to be applied.
Settled == ps_queue = <<>> \/ Head(ps_queue).command = "entity_event"

\* The settled state after the event holds `set` and not `cleared`.
SetsAndClears(event, set, cleared) ==
    ps_observed.event = event =>
        /\ set \in unwrap_or(pseudo_states, {})
        /\ cleared \notin unwrap_or(pseudo_states, {})

C24_PairsExcludeEachOther ==
    Settled =>
        /\ SetsAndClears("Enable", "Enabled", "Disabled")
        /\ SetsAndClears("Disable", "Disabled", "Enabled")
        /\ SetsAndClears("Open", "Open", "Closed")
        /\ SetsAndClears("Close", "Closed", "Open")
        /\ ~HoldsPair(pseudo_states)

\* A disabled entity has been enabled.
C24_Witness ==
    /\ Settled
    /\ ps_observed = [event |-> "Enable", states |-> Some({"Disabled"})]
    /\ pseudo_states = Some({"Enabled"})

\* ------------------------------------------------------------------------
\* C25: each try_* function returns true exactly when it queues its change
\* and queues nothing when it returns false; try_enable, try_disable,
\* try_select, try_check, try_open, try_close, try_fold and try_insert act
\* only if the entity lacks the target state, try_deselect, try_uncheck,
\* try_unfold and try_remove only if it has it; an entity without a
\* PseudoStates component counts as having no state.
\* ------------------------------------------------------------------------
TryIfLacking ==
    {"try_enable", "try_disable", "try_select", "try_check", "try_open", "try_close",
     "try_fold", "try_insert"}

TryIfHolding == {"try_deselect", "try_uncheck", "try_unfold", "try_remove"}

\* The change each try_* function is documented to queue for a state.
ChangeOf(op, state) ==
    CASE op = "try_insert" -> AddPseudoState(state)
      [] op = "try_remove" -> RemovePseudoState(state)
      [] op = "try_enable" -> EntityEvent("Enable")
      [] op = "try_disable" -> EntityEvent("Disable")
      [] op = "try_select" -> EntityEvent("Select")
      [] op = "try_deselect" -> EntityEvent("Deselect")
      [] op = "try_check" -> EntityEvent("Check")
      [] op = "try_uncheck" -> EntityEvent("Uncheck")
      [] op = "try_open" -> EntityEvent("Open")
      [] op = "try_close" -> EntityEvent("Close")
      [] op = "try_fold" -> EntityEvent("Fold")
      [] op = "try_unfold" -> EntityEvent("Unfold")

\* The state the call tested, and whether the component it read holds it.
TestedState == CHOOSE s \in ps_last.arg : TRUE

Held == TestedState \in unwrap_or(ps_last.component, {})

C25_TryActsOnlyWhenNeeded ==
    ps_last.op \in TryIfLacking \cup TryIfHolding =>
        /\ ps_last.returned = (IF ps_last.op \in TryIfLacking THEN ~Held ELSE Held)
        /\ ps_last.queued = IF ps_last.returned
                            THEN <<ChangeOf(ps_last.op, TestedState)>>
                            ELSE <<>>

\* try_enable on an entity without a PseudoStates component returned true
\* and queued Enable.
C25_Witness ==
    /\ ps_last = [op |-> "try_enable", arg |-> {"Enabled"}, component |-> None,
                  returned |-> TRUE, queued |-> <<EntityEvent("Enable")>>]
    /\ ps_queue = <<EntityEvent("Enable")>>
    /\ pseudo_states = None

\* ------------------------------------------------------------------------
\* C26: a callback registered through PseudoStateExt (on_enable, on_select
\* and the others) runs before the entity's PseudoStates is updated for
\* that event, so it observes the states from before the event.
\* ------------------------------------------------------------------------
\* The step takes the entity event at the head of the queue: the queue
\* changes and is not the old queue with more appended.
EventProcessed ==
    /\ ps_queue # <<>>
    /\ Head(ps_queue).command = "entity_event"
    /\ ps_queue' # ps_queue
    /\ \/ Len(ps_queue') < Len(ps_queue)
       \/ SubSeq(ps_queue', 1, Len(ps_queue)) # ps_queue

Converted == style_out # None

OutNode == unwrap_or(style_out, BevyNodeDefault)

\* The Node field that corresponds to a wrapper field holds its value.
FieldCopied(field) ==
    CASE field = "border" -> OutNode.border = StyleRect_into(style_in.border)
      [] field = "padding" -> OutNode.padding = StyleRect_into(style_in.padding)
      [] field = "margin" -> OutNode.margin = StyleRect_into(style_in.margin)
      [] field = "clipping" -> OutNode.overflow = Clipping_into(style_in.clipping)
      [] field = "clip_margin" -> OutNode.overflow_clip_margin = style_in.clip_margin
      [] field = "justify_lines" -> OutNode.align_content = JustifyLines_into(style_in.justify_lines)
      [] field = "justify_main" -> OutNode.justify_content = JustifyMain_into(style_in.justify_main)
      [] field = "justify_cross" -> OutNode.align_items = JustifyCross_into(style_in.justify_cross)
      [] field = "justify_self_cross" ->
            OutNode.align_self = JustifySelfCross_into(style_in.justify_self_cross)
      [] OTHER -> OutNode[field] = style_in[field]

\* ------------------------------------------------------------------------
\* C27: converting an AbsoluteNode or a FlexNode into a Node copies every
\* wrapper field into the corresponding Node field, flex_wrap included,
\* with display Flex, and position_type Absolute for AbsoluteNode and
\* Relative for FlexNode.
\* ------------------------------------------------------------------------
C27_EveryFieldCopied ==
    Converted =>
        /\ \A field \in FieldsOf(style_kind) : FieldCopied(field)
        /\ OutNode.display = "Flex"
        /\ OutNode.position_type = (IF style_kind = "AbsoluteNode" THEN "Absolute" ELSE "Relative")

\* ------------------------------------------------------------------------
\* C28: a default-constructed AbsoluteNode or FlexNode carries the
\* documented defaults, the same as Dims::default, ContentFlex::default and
\* SelfFlex::default: top and left Val::Px(0), bottom and right Val::Auto,
\* flex_wrap NoWrap, and flex_shrink 1 for FlexNode.
\* ------------------------------------------------------------------------
C28_DefaultIsDocumentedDefault ==
    style_made = "default" =>
        /\ Part(style_in, DimsFields) = Dims_default
        /\ Part(style_in, ContentFlexFields) = ContentFlex_default
        /\ style_kind = "FlexNode" => Part(style_in, SelfFlexFields) = SelfFlex_default
        /\ style_in.top = ValPx(0) /\ style_in.left = ValPx(0)
        /\ style_in.bottom = ValAuto /\ style_in.right = ValAuto
        /\ style_in.flex_wrap = "NoWrap"
        /\ style_kind = "FlexNode" => style_in.flex_shrink = F32One

\* ------------------------------------------------------------------------
\* C29: the initializer passed to load_with_initializer runs once for the
\* entity, before the first loadable from the scene reference is applied.
\* ------------------------------------------------------------------------
\* The step applies a loadable: the cache records a new or another payload.
LoadableApplied ==
    \E t \in DOMAIN applied' : t \notin DOMAIN applied \/ applied'[t] # applied[t]

C29_InitializerStep ==
    /\ LoadableApplied => initializer_runs >= 1 /\ initializer_runs' = initializer_runs
    /\ initializer_runs' # initializer_runs =>
          /\ ~bound /\ bound'
          /\ load_state = "Done"
          /\ initializer_runs' = initializer_runs + 1
          /\ applied = <<>> /\ applied' = <<>>

OnlyImported(b) ==
    \A i \in 1..Len(stack[b]) : \E c \in Buffers :
        /\ Imports(b, c)
        /\ \E j \in 1..Len(stack[c]) : stack[c][j].map = stack[b][i].map

\* C30 as claimed: while a file's declarations are evaluated, a reference to a
\* constant the file declares only later finds nothing, whatever else the
\* buffer holds.
C30_ForwardReferenceFindsNothing ==
    \A b \in Buffers : \A name \in Names :
        (OnlyImported(b) /\ name \notin DOMAIN new_file[b]) => get(b, name) = None

\* C30: a reference to a constant the open file has not declared yet is not
\* resolved from the file: get finds nothing unless an entry of the stack
\* resolves the path, and then returns what the newest such entry holds.
C30_ForwardReferenceSeesOnlyTheStack ==
    \A b \in Buffers : \A name \in Names :
        name \notin DOMAIN new_file[b] =>
            IF Resolving(stack[b], name) = {} THEN get(b, name) = None
            ELSE get(b, name) =
                    Some(ResolvedValue(stack[b][Newest(Resolving(stack[b], name))], name))

\* A has not declared x, nothing B holds is visible to A under x because B was
\* imported as b, and get finds nothing; C, imported without an alias by B,
\* resolves x for B before B declares it.
C30_Witness ==
    /\ new_file["A"] = EmptyMap
    /\ stack["A"] # <<>>
    /\ \A i \in 1..Len(stack["A"]) : stack["A"][i].prefix = <<"b">>
    /\ get("A", <<"x">>) = None
    /\ new_file["B"] = EmptyMap
    /\ get("B", <<"x">>) = Some(2)

\* ------------------------------------------------------------------------
\* C31
\* ------------------------------------------------------------------------

\* C31: within one file, inserting a constant under a name the file already
\* declared replaces the earlier value: get of the name then returns the last
\* inserted value, and end_new_file freezes a map that holds, for each name,
\* the one value get returned last.
C31_LastInsertWins ==
    [][ /\ (log'.op = "insert" /\ log'.removed = 1) =>
              \E b \in Buffers : \E name \in DOMAIN new_file[b] :
                  /\ new_file'[b][name] # new_file[b][name]
                  /\ DOMAIN new_file'[b] = DOMAIN new_file[b]
                  /\ get(b, name)' = Some(new_file'[b][name])
                  /\ get(b, name)' # get(b, name)
        /\ (log'.op = "end_new_file") =>
              \E b \in Buffers :
                  /\ Len(stack'[b]) = Len(stack[b]) + 1
                  /\ DOMAIN maps'[Top(stack'[b]).map] = DOMAIN new_file[b]
                  /\ \A name \in DOMAIN new_file[b] :
                        Some(maps'[Top(stack'[b]).map][name]) = get(b, name)
      ]_vars

\* A declared x = 1 and then x = 2 in the same file: get returns 2.
C31_Witness ==
    /\ log = [op |-> "insert", removed |-> 1]
    /\ new_file["A"] = MapInsert(EmptyMap, <<"x">>, 2)
    /\ get("A", <<"x">>) = Some(2)

\* ------------------------------------------------------------------------
\* C32
\* ------------------------------------------------------------------------

\* C32: between calls (every reactor has run), an entity that has both a Node
\* and a React<DisplayControl> has node.display equal to the display the
\* DisplayControl converts into: Hide gives None, Display gives Flex.
C32_DisplayFollowsDisplayControl ==
    (alive /\ comps.node # None /\ comps.display_control # None) =>
        unwrap_or(comps.node, NodeDefault).display =
            DisplayControlIntoDisplay(unwrap_or(comps.display_control, 1))

\* ------------------------------------------------------------------------
\* C33
\* ------------------------------------------------------------------------

\* The apply and revert callbacks that one register_bundle, register_reactive
\* or register_instruction call supplies together.
RegistrationPairs ==
    { <<"bundle_loader", "revert_bundle">>,
      <<"reactive_loader", "revert_reactive">>,
      <<"instruction_loader", "Instruction::revert">> }

\* A type has a node callback exactly when it has a revert callback, and the
\* two were supplied by one call.
NodeAndRevertPaired ==
    /\ DOMAIN node_callbacks = DOMAIN revert_callbacks
    /\ \A t \in DOMAIN node_callbacks :
          <<node_callbacks[t], revert_callbacks[t]>> \in RegistrationPairs

\* C33: after any sequence of registrations a type identity has a node apply
\* callback if and only if it has a revert callback, both from the same
\* registration call, and a registration of a command adds neither.
C33_NodeAndRevertRegisteredTogether ==
    [][ /\ NodeAndRevertPaired'
        /\ (command_callbacks' # command_callbacks) =>
              UNCHANGED <<node_callbacks, revert_callbacks>>
      ]_vars

\* AbsoluteNode was registered as a bundle and then again as a reactive
\* component; FlexNode only as a command.
C33_Witness ==
    /\ get_for_node("AbsoluteNode") = Some("bundle_loader")
    /\ get_for_revert("AbsoluteNode") = Some("revert_bundle")
    /\ lastRegistered["AbsoluteNode"].node = Some("reactive_loader")
    /\ get_for_command("FlexNode") # None
    /\ get_for_node("FlexNode") = None
    /\ get_for_revert("FlexNode") = None

\* ------------------------------------------------------------------------
\* C34
\* ------------------------------------------------------------------------

Entries(st) == {st[i] : i \in 1..Len(st)}

\* Buffer a already holds every entry that appending b under alias pushes:
\* b was appended under that alias before and has not changed since.
AlreadyAppended(a, alias, b) ==
    /\ Imports(a, b)
    /\ alias \in AliasesOf(b)
    /\ stack[b] # <<>>
    /\ \A k \in 1..Len(stack[b]) : \E i \in 1..Len(stack[a]) :
          /\ stack[a][i].map = stack[b][k].map
          /\ stack[a][i].prefix = Joined(alias, stack[b][k].prefix)

\* C34: appending the same buffer under the same alias a second time does not
\* grow the stack: it holds the same set of (prefix, map) entries as before,
\* the other entries keep their order, and the re-appended entries are the top
\* of the stack, so that a path they resolve is looked up in them before the
\* entries imported in between.
C34_ReappendMovesToTop ==
    \A a \in Buffers, b \in Buffers : \A alias \in AliasesOf(b) :
        AlreadyAppended(a, alias, b) =>
            LET after == AppendedStack(stack[a], alias, stack[b])
                len == Len(stack[a])
                first == len - Len(stack[b]) + 1
            IN /\ Len(after) = len
               /\ Entries(after) = Entries(stack[a])
               /\ SubSeq(after, first, len) = Reprefixed(alias, stack[b])
               /\ SubSeq(after, 1, first - 1) =
                     SelectSeq(stack[a], LAMBDA e : \A k \in first..len : after[k] # e)
               /\ \A k \in first..len : \A name \in DOMAIN maps[after[k].map] :
                     LET path == Joined(after[k].prefix, name) IN
                     (path \notin DOMAIN new_file[a]) =>
                         GetIn(new_file[a], after, path) =
                             Some(ResolvedValue(
                                 after[Newest({i \in first..len : Resolves(after[i], path)})],
                                 path))

\* A imported B, then C, then B again: both define x, the stack of A still has
\* two entries, and x is B's value again, not C's.
C34_Witness ==
    /\ log = [op |-> "append", removed |-> 1]
    /\ Len(stack["A"]) = 2
    /\ stack["A"][2] \in Entries(stack["B"])
    /\ stack["A"][1] \in Entries(stack["C"])
    /\ stack["A"][1].prefix = <<>>
    /\ stack["A"][2].prefix = <<>>
    /\ MapGet(maps[stack["A"][1].map], <<"x">>) = Some(2)
    /\ new_file["A"] = EmptyMap
    /\ get("A", <<"x">>) = Some(1)

\* ------------------------------------------------------------------------
\* C35
\* ------------------------------------------------------------------------

\* Map m was frozen by an end_new_file of buffer a itself: a holds it and no
\* buffer that a imports does.
OwnMap(a, m) ==
    /\ \E i \in 1..Len(stack[a]) : stack[a][i].map = m
    /\ \A c \in Buffers : Imports(a, c) =>
          \A j \in 1..Len(stack[c]) : stack[c][j].map # m

\* A file of buffer a that has ended declared the name.
OwnEndedFileDeclares(a, name) ==
    \E i \in 1..Len(stack[a]) :
        /\ OwnMap(a, stack[a][i].map)
        /\ name \in DOMAIN maps[stack[a][i].map]

\* C35: once end_new_file has run, the file's own constants sit in the stack
\* under an empty prefix and have no priority left: when a buffer that defines
\* the same name is appended afterwards under an empty alias, get of the name
\* returns the appended value.
C35_EndedFileLosesPriority ==
    \A a \in Buffers :
        /\ \A i \in 1..Len(stack[a]) :
              OwnMap(a, stack[a][i].map) => stack[a][i].prefix = <<>>
        /\ \A b \in Buffers : \A name \in Names :
              (/\ Imports(a, b)
               /\ name \notin DOMAIN new_file[a]
               /\ OwnEndedFileDeclares(a, name)
               /\ Resolving(stack[b], name) # {}) =>
                  GetIn(new_file[a], AppendedStack(stack[a], <<>>, stack[b]), name) =
                      Some(ResolvedValue(stack[b][Newest(Resolving(stack[b], name))], name))

\* A declared x = 2 and ended its file, then imported B, which declares x = 1,
\* without an alias: x is now 1 in A.
C35_Witness ==
    /\ log.op = "append"
    /\ Len(stack["A"]) = 2
    /\ OwnMap("A", stack["A"][1].map)
    /\ MapGet(maps[stack["A"][1].map], <<"x">>) = Some(2)
    /\ stack["A"][2] \in Entries(stack["B"])
    /\ stack["A"][2].prefix = <<>>
    /\ MapGet(maps[stack["A"][2].map], <<"x">>) = Some(1)
    /\ new_file["A"] = EmptyMap
    /\ get("A", <<"x">>) = Some(1)

\* ------------------------------------------------------------------------
\* C36
\* ------------------------------------------------------------------------

\* C36: the prefix is matched as text and the separator after it is optional:
\* for a stack entry with prefix b whose map holds x, get("bx") resolves as
\* get("b::x") does, and for an entry with the empty prefix get("::x")
\* resolves as well, to what the stack holds for x.
C36_SeparatorIsOptional ==
    \A c \in Buffers : \A i \in 1..Len(stack[c]) :
        \A name \in DOMAIN maps[stack[c][i].map] :
            LET prefix == stack[c][i].prefix
                value == Some(maps[stack[c][i].map][name])
            IN IF prefix # <<>>
               THEN /\ EntryLookup(stack[c][i], prefix \o name) = value
                    /\ EntryLookup(stack[c][i], prefix \o CONSTANT_SEPARATOR \o name) = value
                    /\ get(c, prefix \o name) # None
                    /\ get(c, prefix \o name) = get(c, prefix \o CONSTANT_SEPARATOR \o name)
               ELSE /\ EntryLookup(stack[c][i], CONSTANT_SEPARATOR \o name) = value
                    /\ get(c, CONSTANT_SEPARATOR \o name) # None
                    /\ get(c, CONSTANT_SEPARATOR \o name) =
                          Some(ResolvedValue(stack[c][Newest(Resolving(stack[c], name))], name))

\* A imported B as b and C without an alias; B declared x = 1 and C x = 2:
\* in A, bx and b::x are both 1, and ::x is 2.
C36_Witness ==
    /\ \E i \in 1..Len(stack["A"]) :
          /\ stack["A"][i].prefix = <<"b">>
          /\ MapGet(maps[stack["A"][i].map], <<"x">>) = Some(1)
    /\ \E i \in 1..Len(stack["A"]) :
          /\ stack["A"][i].prefix = <<>>
          /\ MapGet(maps[stack["A"][i].map], <<"x">>) = Some(2)
    /\ get("A", <<"b", "x">>) = Some(1)
    /\ get("A", <<"b", ":", ":", "x">>) = Some(1)
    /\ get("A", <<":", ":", "x">>) = Some(2)

\* ------------------------------------------------------------------------
\* C37
\* ------------------------------------------------------------------------

\* The step is a call of the try_* function op: it read the committed
\* component, changed nothing on the entity and queued what it returned.
TryCalled(op) ==
    /\ ps_last'.op = op
    /\ ps_last'.component = pseudo_states
    /\ pseudo_states' = pseudo_states
    /\ ps_observed' = ps_observed
    /\ ps_queue' = ps_queue \o ps_last'.queued

\* The entity's committed PseudoStates holds the state.
Committed(state) == state \in unwrap_or(pseudo_states, {})

\* A try_* call answers from the committed component alone, whatever is
\* queued: while the entity is not yet Selected, every try_select returns
\* true and queues one more Select, and try_deselect returns false and
\* queues nothing.
C37_TryReadsCommitted ==
    /\ TryCalled("try_select") /\ ~Committed("Selected") =>
          /\ ps_last'.returned
          /\ ps_queue' = Append(ps_queue, EntityEvent("Select"))
    /\ TryCalled("try_deselect") /\ ~Committed("Selected") =>
          /\ ~ps_last'.returned
          /\ ps_queue' = ps_queue
    /\ TryCalled("try_select") /\ Committed("Selected") =>
          /\ ~ps_last'.returned
          /\ ps_queue' = ps_queue
    /\ TryCalled("try_deselect") /\ Committed("Selected") =>
          /\ ps_last'.returned
          /\ ps_queue' = Append(ps_queue, EntityEvent("Deselect"))

\* try_deselect was refused on an entity that is not yet Selected while a
\* Select is waiting.
DeselectRefusedWhileSelectQueued ==
    /\ ps_last.op = "try_deselect"
    /\ ~ps_last.returned
    /\ ps_last.component = pseudo_states
    /\ ~Committed("Selected")
    /\ \E i \in 1..Len(ps_queue) : ps_queue[i] = EntityEvent("Select")

\* C37: the try_* guards read the committed PseudoStates component: two
\* try_select calls made before the queue is applied both return true and
\* queue two Select events, and a try_deselect right after a try_select, in
\* the same window, returns false, so that the entity ends Selected.
C37_TryGuardsReadCommittedStates ==
    /\ [][C37_TryReadsCommitted]_vars
    /\ (DeselectRefusedWhileSelectQueued ~> Committed("Selected"))

\* Two try_select calls were accepted and the try_deselect after them was
\* refused: two Select events wait, the entity is not Selected yet.
C37_Witness ==
    /\ ps_queue = <<EntityEvent("Select"), EntityEvent("Select")>>
    /\ ps_last = [op |-> "try_deselect", arg |-> {"Selected"}, component |-> pseudo_states,
                  returned |-> FALSE, queued |-> <<>>]
    /\ ~Committed("Selected")

====
